---- MODULE Spec2Model ----
(***************************************************************************)
(* Fleet payload dashboard: the PDF text extractor (pdf-text-extractor.js) *)
(* and the dashboard session that imports, edits and summarises its        *)
(* records (dashboard.js), with the validation rules of config.js.         *)
(*                                                                         *)
(* Representation.  A JavaScript string the code inspects character by     *)
(* character (a text line, an identifier, a numeric token, the text of an  *)
(* inline editor) is a sequence of one-character strings.  A JavaScript    *)
(* number is a record: Num(v) is the finite number v / Scale, NaN is the   *)
(* not-a-number value and Null is the absent value (null / undefined).     *)
(***************************************************************************)
EXTENDS Integers, Sequences, FiniteSets, TLC

(***************************************************************************)
(* Numbers                                                                 *)
(***************************************************************************)
\* Fixed-point unit: numbers are kept in hundredths.
Scale == 10 * 10

Null == [k |-> "null", v |-> 0]
NaN == [k |-> "nan", v |-> 0]
Num(x) == [k |-> "num", v |-> x]

IsNum(n) == n.k = "num"

\* isNaN(n) for a value that is a number or NaN.
isNaN(n) == n.k = "nan"

\* JavaScript truthiness of a number-or-null value: null, NaN and 0 are falsy.
Truthy(n) == n.k = "num" /\ n.v # 0

\* n < m and n > m on numbers; any comparison with NaN is false.
NumLt(n, m) == IsNum(n) /\ IsNum(m) /\ n.v < m.v
NumGt(n, m) == IsNum(n) /\ IsNum(m) /\ n.v > m.v
NumLe(n, m) == IsNum(n) /\ IsNum(m) /\ n.v <= m.v
NumGe(n, m) == IsNum(n) /\ IsNum(m) /\ n.v >= m.v

(***************************************************************************)
(* Characters and strings                                                  *)
(***************************************************************************)
Digits == {"0", "1", "2", "3", "4", "5", "6", "7", "8", "9"}

DigitVal(c) ==
    CASE c = "0" -> 0 [] c = "1" -> 1 [] c = "2" -> 2 [] c = "3" -> 3
      [] c = "4" -> 4 [] c = "5" -> 5 [] c = "6" -> 6 [] c = "7" -> 7
      [] c = "8" -> 8 [] c = "9" -> 9

\* \s of a regular expression, and the white space String.trim and
\* parseFloat skip.
IsSpace(c) == c \in {" ", "\t"}

\* [\d\.,\-] of dataRegex.
IsNumericChar(c) == c \in Digits \cup {".", ",", "-"}

IsDigit(c) == c \in Digits

\* Length of the longest run of digits, of white space and of numeric-token
\* characters that starts at s[i] (the greedy \d*, \s* and [\d\.,\-]*).
RECURSIVE DigitRun(_, _)
DigitRun(s, i) == IF i <= Len(s) /\ IsDigit(s[i]) THEN 1 + DigitRun(s, i + 1) ELSE 0
RECURSIVE SpaceRun(_, _)
SpaceRun(s, i) == IF i <= Len(s) /\ IsSpace(s[i]) THEN 1 + SpaceRun(s, i + 1) ELSE 0
RECURSIVE NumericRun(_, _)
NumericRun(s, i) ==
    IF i <= Len(s) /\ IsNumericChar(s[i]) THEN 1 + NumericRun(s, i + 1) ELSE 0

\* s.startsWith(p)
startsWith(s, p) == Len(s) >= Len(p) /\ SubSeq(s, 1, Len(p)) = p

\* The integer written by the digit string s ("" is 0).
RECURSIVE DigitsValue(_)
DigitsValue(s) ==
    IF s = <<>> THEN 0
    ELSE 10 * DigitsValue(SubSeq(s, 1, Len(s) - 1)) + DigitVal(s[Len(s)])

\* s.trim()
RECURSIVE trimLeft(_)
trimLeft(s) == IF s # <<>> /\ IsSpace(s[1]) THEN trimLeft(Tail(s)) ELSE s
RECURSIVE trimRight(_)
trimRight(s) ==
    IF s # <<>> /\ IsSpace(s[Len(s)]) THEN trimRight(SubSeq(s, 1, Len(s) - 1)) ELSE s
trim(s) == trimRight(trimLeft(s))

\* The decimal digits of the natural number n ("0" for 0).
RECURSIVE NatToDigits(_)
NatToDigits(n) ==
    LET d == <<"0", "1", "2", "3", "4", "5", "6", "7", "8", "9">>[(n % 10) + 1]
    IN IF n < 10 THEN <<d>> ELSE Append(NatToDigits(n \div 10), d)

Abs(i) == IF i < 0 THEN 0 - i ELSE i

\* The value of the fraction digits s, in units of 1 / Scale, when the first
\* digit is worth `unit`.  Digits finer than 1 / Scale are dropped: the
\* inputs of the model carry at most two fraction digits.
RECURSIVE FracValue(_, _)
FracValue(s, unit) ==
    IF s = <<>> \/ unit = 0 THEN 0
    ELSE DigitVal(s[1]) * unit + FracValue(Tail(s), unit \div 10)

\* The fraction digits of v / Scale (0 <= v < Scale) without trailing zeros.
RECURSIVE FracDigitsOf(_, _)
FracDigitsOf(v, unit) ==
    IF v = 0 \/ unit = 0 THEN <<>>
    ELSE NatToDigits(v \div unit) \o FracDigitsOf(v % unit, unit \div 10)

\* parseFloat(s) for a string s: leading white space is skipped, then an
\* optional sign, digits, and an optional '.' with digits are read, and the
\* rest of the string is ignored; NaN when no digit was read.  (Exponents and
\* the word Infinity do not occur in the strings of the model.)
parseFloat(s) ==
    LET t == trimLeft(s)
        signed == t # <<>> /\ t[1] \in {"-", "+"}
        i == IF signed THEN 2 ELSE 1
        nInt == DigitRun(t, i)
        hasDot == i + nInt <= Len(t) /\ t[i + nInt] = "."
        nFrac == IF hasDot THEN DigitRun(t, i + nInt + 1) ELSE 0
        mag == DigitsValue(SubSeq(t, i, i + nInt - 1)) * Scale
               + FracValue(SubSeq(t, i + nInt + 1, i + nInt + nFrac), Scale \div 10)
    IN IF nInt = 0 /\ nFrac = 0 THEN NaN
       ELSE IF signed /\ t[1] = "-" THEN Num(0 - mag) ELSE Num(mag)

\* String(n) for a number n: "NaN", or the shortest decimal numeral.
NumToString(n) ==
    IF n.k = "null" THEN <<"n", "u", "l", "l">>
    ELSE IF isNaN(n) THEN <<"N", "a", "N">>
    ELSE LET m == Abs(n.v)
             frac == FracDigitsOf(m % Scale, Scale \div 10)
         IN (IF n.v < 0 THEN <<"-">> ELSE <<>>)
            \o NatToDigits(m \div Scale)
            \o (IF frac = <<>> THEN <<>> ELSE <<".">> \o frac)

\* numer / denom rounded to a whole number of tenths, halves away from zero
\* (Number.prototype.toFixed(1) on the quotient; numer is in units of
\* 1 / Scale, denom > 0).
RoundTenths(numer, denom) ==
    LET a == Abs(numer)
        q == (2 * 10 * a + denom * Scale) \div (2 * denom * Scale)
    IN IF numer < 0 THEN 0 - q ELSE q

\* The numeral with one fraction digit of t tenths.
TenthsText(t) ==
    (IF t < 0 THEN <<"-">> ELSE <<>>)
    \o NatToDigits(Abs(t) \div 10) \o <<".">> \o NatToDigits(Abs(t) % 10)

\* n.toFixed(1) for a number n.
toFixed1(n) == IF isNaN(n) THEN <<"N", "a", "N">> ELSE TenthsText(RoundTenths(n.v, 1))

(***************************************************************************)
(* PDFTextExtractor: pure parts                                            *)
(***************************************************************************)
\* str.replace(/c/g, '')
RECURSIVE RemoveAll(_, _)
RemoveAll(str, c) ==
    IF str = <<>> THEN <<>>
    ELSE IF str[1] = c THEN RemoveAll(Tail(str), c)
    ELSE <<str[1]>> \o RemoveAll(Tail(str), c)

\* str.replace(c, d): only the first occurrence is replaced.
RECURSIVE ReplaceFirst(_, _, _)
ReplaceFirst(str, c, d) ==
    IF str = <<>> THEN <<>>
    ELSE IF str[1] = c THEN <<d>> \o Tail(str)
    ELSE <<str[1]>> \o ReplaceFirst(Tail(str), c, d)

\* Variant: in comma format every comma becomes a dot.
normalizeNumber_everyComma(str, format) ==
    IF format = "comma"
    THEN [i \in 1..Len(RemoveAll(str, ".")) |->
             IF RemoveAll(str, ".")[i] = "," THEN "." ELSE RemoveAll(str, ".")[i]]
    ELSE RemoveAll(str, ",")

normalizeNumber(str, format) ==
    IF format = "comma"
    THEN ReplaceFirst(RemoveAll(str, "."), ",", ".")
    ELSE RemoveAll(str, ",")

NoMatch == [ok |-> FALSE, eqNum |-> <<>>, raw |-> <<>>]

\* Variant: the identifier may have more than four digits.
dataRegexMatch_moreDigits(line) ==
    LET i == 1 + SpaceRun(line, 1)
        isUnit == /\ Len(line) >= i + 5
                  /\ SubSeq(line, i, i + 1) \in {<<"E", "X">>, <<"D", "T">>}
                  /\ DigitRun(line, i + 2) >= 4
        isTotal == /\ Len(line) >= i + 4
                   /\ SubSeq(line, i, i + 4) = <<"T", "o", "t", "a", "l">>
        j == IF isUnit THEN i + 2 + DigitRun(line, i + 2) ELSE i + 5
        k == j + SpaceRun(line, j)
        n == NumericRun(line, k)
    IN IF (isUnit \/ isTotal) /\ k > j /\ n > 0
       THEN [ok |-> TRUE, eqNum |-> SubSeq(line, i, j - 1),
             raw |-> SubSeq(line, k, k + n - 1)]
       ELSE NoMatch

\* line.match(/^\s*(EX\d{4}|DT\d{4}|Total)\s+([\d\.,\-]+)/): the identifier
\* (group 1) and the numeric token (group 2), or no match.
dataRegexMatch(line) ==
    LET i == 1 + SpaceRun(line, 1)
        isUnit == /\ Len(line) >= i + 5
                  /\ SubSeq(line, i, i + 1) \in {<<"E", "X">>, <<"D", "T">>}
                  /\ DigitRun(line, i + 2) >= 4
        isTotal == /\ Len(line) >= i + 4
                   /\ SubSeq(line, i, i + 4) = <<"T", "o", "t", "a", "l">>
        j == IF isUnit THEN i + 6 ELSE i + 5
        k == j + SpaceRun(line, j)
        n == NumericRun(line, k)
    IN IF (isUnit \/ isTotal) /\ k > j /\ n > 0
       THEN [ok |-> TRUE, eqNum |-> SubSeq(line, i, j - 1),
             raw |-> SubSeq(line, k, k + n - 1)]
       ELSE NoMatch

\* FleetConfig.fleet.validation.payload.min / .max (config.js).
PayloadMin == 0
PayloadMax == 1000

\* A record's statusOverride when none is stored (undefined or null).
NoStatus == "none"

\* The object extractDataFromPDF pushes for a unit line.
ExtractedRecord(eqNum, payload) ==
    [eqNum |-> eqNum, payload |-> payload, supervisor |-> <<>>,
     statusOverride |-> NoStatus]

\* The forEach over allLines of extractDataFromPDF, from line i on: each line
\* is matched once; a Total line sets extractedAvgPayload, any other match
\* is pushed to extractedData, and every match sets dataFound.
RECURSIVE parseLinesFrom(_, _, _, _)
parseLinesFrom(allLines, decimalFormat, i, acc) ==
    IF i > Len(allLines) THEN acc
    ELSE LET match == dataRegexMatch(allLines[i])
             normalizedPayload == normalizeNumber(match.raw, decimalFormat)
             numericPayload == parseFloat(normalizedPayload)
             next ==
                 IF ~match.ok THEN acc
                 ELSE IF match.eqNum = <<"T", "o", "t", "a", "l">>
                 THEN [acc EXCEPT !.extractedAvgPayload = numericPayload,
                                  !.dataFound = TRUE]
                 ELSE [acc EXCEPT !.extractedData =
                                      Append(@, ExtractedRecord(match.eqNum, numericPayload)),
                                  !.dataFound = TRUE]
         IN parseLinesFrom(allLines, decimalFormat, i + 1, next)

\* Variant: the first line is not processed.
parseLines_skipFirstLine(allLines, decimalFormat) ==
    parseLinesFrom(allLines, decimalFormat, 2,
                   [extractedData |-> <<>>, extractedAvgPayload |-> Null,
                    dataFound |-> FALSE])

parseLines(allLines, decimalFormat) ==
    parseLinesFrom(allLines, decimalFormat, 1,
                   [extractedData |-> <<>>, extractedAvgPayload |-> Null,
                    dataFound |-> FALSE])

\* FleetConfig.fleet.validation.eqNum.pattern.test(eqNum): /^(EX|DT)\d{4}$/
eqNumPatternTest(eqNum) ==
    /\ Len(eqNum) = 6
    /\ SubSeq(eqNum, 1, 2) \in {<<"E", "X">>, <<"D", "T">>}
    /\ DigitRun(eqNum, 3) = 4

IssueEqNum == "Invalid equipment number format"
IssuePayload == "Payload out of valid range (0-1000 ton)"

\* Variant: the payload is checked only when the identifier passed.
itemIssues_stopAtFirst(item) ==
    LET payload == parseFloat(NumToString(item.payload))
    IN IF ~eqNumPatternTest(item.eqNum) THEN <<IssueEqNum>>
       ELSE IF \/ isNaN(payload)
               \/ NumLt(payload, Num(PayloadMin * Scale))
               \/ NumGt(payload, Num(PayloadMax * Scale))
       THEN <<IssuePayload>> ELSE <<>>

\* The issues list validateExtractedData builds for one item.
itemIssues(item) ==
    LET payload == parseFloat(NumToString(item.payload))
    IN (IF ~eqNumPatternTest(item.eqNum) THEN <<IssueEqNum>> ELSE <<>>)
       \o (IF \/ isNaN(payload)
              \/ NumLt(payload, Num(PayloadMin * Scale))
              \/ NumGt(payload, Num(PayloadMax * Scale))
           THEN <<IssuePayload>> ELSE <<>>)

\* { ...item, issues }
WithIssues(item, issues) ==
    [eqNum |-> item.eqNum, payload |-> item.payload, supervisor |-> item.supervisor,
     statusOverride |-> item.statusOverride, issues |-> issues]

\* The forEach of validateExtractedData, from item i on.
RECURSIVE validateFrom(_, _, _)
validateFrom(data, i, acc) ==
    IF i > Len(data) THEN acc
    ELSE LET issues == itemIssues(data[i])
         IN validateFrom(data, i + 1,
                IF Len(issues) = 0
                THEN [acc EXCEPT !.validData = Append(@, data[i])]
                ELSE [acc EXCEPT !.invalidData = Append(@, WithIssues(data[i], issues))])

\* Variant: the invalid records are dropped.
validateExtractedData_dropInvalid(data) ==
    [validData |-> validateFrom(data, 1, [validData |-> <<>>, invalidData |-> <<>>]).validData,
     invalidData |-> <<>>]

validateExtractedData(data) ==
    validateFrom(data, 1, [validData |-> <<>>, invalidData |-> <<>>])

\* Sum, minimum and maximum of the payloads of a non-empty list (reduce,
\* Math.min, Math.max); NaN is contagious in all three.
RECURSIVE SumV(_)
SumV(data) == IF data = <<>> THEN 0 ELSE data[1].payload.v + SumV(Tail(data))

AnyNaN(data) == \E i \in 1..Len(data) : isNaN(data[i].payload)

PayloadSum(data) == IF AnyNaN(data) THEN NaN ELSE Num(SumV(data))

MinPayload(data) ==
    IF AnyNaN(data) THEN NaN
    ELSE Num(CHOOSE m \in {data[i].payload.v : i \in 1..Len(data)} :
                 \A i \in 1..Len(data) : m <= data[i].payload.v)

MaxPayload(data) ==
    IF AnyNaN(data) THEN NaN
    ELSE Num(CHOOSE m \in {data[i].payload.v : i \in 1..Len(data)} :
                 \A i \in 1..Len(data) : m >= data[i].payload.v)

\* (sum / length).toFixed(1) read back by parseFloat.
MeanFixed1(data) ==
    IF AnyNaN(data) THEN NaN
    ELSE Num(RoundTenths(SumV(data), Len(data)) * (Scale \div 10))

CountPrefix(data, p) == Cardinality({i \in 1..Len(data) : startsWith(data[i].eqNum, p)})

\* Variant: the first record's payload is taken as the minimum.
calculateStatistics_firstAsMin(data) ==
    IF Len(data) = 0
    THEN [totalRecords |-> 0, averagePayload |-> Num(0), minPayload |-> Num(0),
          maxPayload |-> Num(0), excavatorCount |-> 0, dumpTruckCount |-> 0]
    ELSE [totalRecords |-> Len(data),
          averagePayload |-> MeanFixed1(data),
          minPayload |-> data[1].payload,
          maxPayload |-> MaxPayload(data),
          excavatorCount |-> CountPrefix(data, <<"E", "X">>),
          dumpTruckCount |-> CountPrefix(data, <<"D", "T">>)]

calculateStatistics(data) ==
    IF Len(data) = 0
    THEN [totalRecords |-> 0, averagePayload |-> Num(0), minPayload |-> Num(0),
          maxPayload |-> Num(0), excavatorCount |-> 0, dumpTruckCount |-> 0]
    ELSE [totalRecords |-> Len(data),
          averagePayload |-> MeanFixed1(data),
          minPayload |-> MinPayload(data),
          maxPayload |-> MaxPayload(data),
          excavatorCount |-> CountPrefix(data, <<"E", "X">>),
          dumpTruckCount |-> CountPrefix(data, <<"D", "T">>)]

\* One page's text items as extractDataFromPDF arranges them: items are
\* grouped by Math.round(y), the groups ordered by descending y, each group
\* sorted by ascending x (Array.prototype.sort is stable) and its texts
\* joined by one space.  An item is [x, y, str] with y in half units.
roundY(item) == (item.y + 1) \div 2

\* Insert item into the x-sorted row, after every item whose x is not larger.
RECURSIVE InsertByX(_, _)
InsertByX(row, item) ==
    IF row = <<>> THEN <<item>>
    ELSE IF item.x < row[1].x THEN <<item>> \o row
    ELSE <<row[1]>> \o InsertByX(Tail(row), item)

RECURSIVE SortByX(_)
SortByX(row) ==
    IF row = <<>> THEN <<>>
    ELSE InsertByX(SortByX(SubSeq(row, 1, Len(row) - 1)), row[Len(row)])

RECURSIVE JoinSpace(_)
JoinSpace(row) ==
    IF row = <<>> THEN <<>>
    ELSE IF Len(row) = 1 THEN row[1].str
    ELSE row[1].str \o <<" ">> \o JoinSpace(Tail(row))

\* The keys of a set of integers in descending order.
RECURSIVE SortDesc(_)
SortDesc(S) ==
    IF S = {} THEN <<>>
    ELSE LET m == CHOOSE a \in S : \A b \in S : a >= b
         IN <<m>> \o SortDesc(S \ {m})

RowAt(items, y) == SelectSeq(items, LAMBDA it : roundY(it) = y)

\* Variant: the fragments of a row stay in the order of the text items.
pageLines_itemOrder(items) ==
    LET sortedYCoordinates == SortDesc({roundY(items[i]) : i \in 1..Len(items)})
    IN [n \in 1..Len(sortedYCoordinates) |->
            JoinSpace(RowAt(items, sortedYCoordinates[n]))]

pageLines(items) ==
    LET sortedYCoordinates == SortDesc({roundY(items[i]) : i \in 1..Len(items)})
    IN [n \in 1..Len(sortedYCoordinates) |->
            JoinSpace(SortByX(RowAt(items, sortedYCoordinates[n])))]

(***************************************************************************)
(* FleetDashboard: pure parts                                              *)
(***************************************************************************)
\* FleetConfig.fleet.thresholds.optimal.min / .max (config.js).
OptimalMin == 98
OptimalMax == 105

\* Variant: the upper threshold itself is not optimal.
getPayloadStatus_upperExcluded(payload, statusOverride) ==
    IF statusOverride # NoStatus THEN statusOverride
    ELSE IF NumLt(payload, Num(OptimalMin * Scale)) THEN "under"
    ELSE IF NumGe(payload, Num(OptimalMin * Scale)) /\ NumLt(payload, Num(OptimalMax * Scale))
    THEN "optimal"
    ELSE "overload"

getPayloadStatus(payload, statusOverride) ==
    IF statusOverride # NoStatus THEN statusOverride
    ELSE IF NumLt(payload, Num(OptimalMin * Scale)) THEN "under"
    ELSE IF NumGe(payload, Num(OptimalMin * Scale)) /\ NumLe(payload, Num(OptimalMax * Scale))
    THEN "optimal"
    ELSE "overload"

IsEX(item) == startsWith(item.eqNum, <<"E", "X">>)
IsDT(item) == startsWith(item.eqNum, <<"D", "T">>)

\* fleetData.findIndex(d => d.eqNum === eqNum): the first such index, or -1.
findIndex(data, eqNum) ==
    IF \E i \in 1..Len(data) : data[i].eqNum = eqNum
    THEN CHOOSE i \in 1..Len(data) :
             /\ data[i].eqNum = eqNum
             /\ \A j \in 1..(i - 1) : data[j].eqNum # eqNum
    ELSE -1

\* The loop of autoAssignSupervisor from index i on: DT items receive the
\* supervisor until the next EX item ends the group.
RECURSIVE assignFrom(_, _, _)
assignFrom(data, i, supervisorName) ==
    IF i > Len(data) \/ IsEX(data[i]) THEN data
    ELSE assignFrom(IF IsDT(data[i])
                    THEN [data EXCEPT ![i].supervisor = supervisorName]
                    ELSE data,
                    i + 1, supervisorName)

\* Variant: the group does not end at the next EX item.
autoAssignSupervisor_pastNextEX(data, excavatorIndex, supervisorName) ==
    [i \in 1..Len(data) |->
        IF i > excavatorIndex /\ IsDT(data[i])
        THEN [data[i] EXCEPT !.supervisor = supervisorName]
        ELSE data[i]]

autoAssignSupervisor(data, excavatorIndex, supervisorName) ==
    IF ~IsEX(data[excavatorIndex]) THEN data
    ELSE assignFrom(data, excavatorIndex + 1, supervisorName)

\* initializeSupervisors: for every EX item with a supervisor, in list
\* order, the group of the first item carrying that identifier is assigned.
RECURSIVE initFrom(_, _, _)
initFrom(data, withSup, n) ==
    IF n > Len(withSup) THEN data
    ELSE LET excavatorIndex == findIndex(data, withSup[n].eqNum)
         IN initFrom(IF excavatorIndex >= 1
                     THEN autoAssignSupervisor(data, excavatorIndex, withSup[n].supervisor)
                     ELSE data,
                     withSup, n + 1)

initializeSupervisors(data) ==
    initFrom(data, SelectSeq(data, LAMBDA it : IsEX(it) /\ it.supervisor # <<>>), 1)

\* (payloads.reduce((sum, p) => sum + p, 0) / payloads.length).toFixed(1)
\* for a non-empty collection.
meanToFixed1(data) ==
    IF AnyNaN(data) THEN <<"N", "a", "N">>
    ELSE TenthsText(RoundTenths(SumV(data), Len(data)))

\* The text updateSummary puts into the avgPayload card.
summaryAvgPayload(data, extractedAvg) ==
    IF Len(data) = 0 THEN <<"0">>
    ELSE IF extractedAvg # Null
    THEN (IF Truthy(extractedAvg) THEN toFixed1(extractedAvg) ELSE <<"0", ".", "0">>)
    ELSE (IF ~AnyNaN(data) /\ SumV(data) # 0 THEN meanToFixed1(data)
          ELSE <<"0", ".", "0">>)

\* The average generateAutoCaption writes after "Rata-rata Payload:" for
\* a non-empty collection.
captionAvgPayload(data, extractedAvg) ==
    IF extractedAvg # Null THEN toFixed1(extractedAvg) ELSE meanToFixed1(data)

\* The average shareDashboard writes into the PDF report.
reportAvgPayload(data, extractedAvg) ==
    IF extractedAvg # Null THEN toFixed1(extractedAvg) ELSE meanToFixed1(data)

\* Step 1 of updateTable: the records in the order they are grouped by
\* excavator; records before the first EX record belong to no group.
RECURSIVE groupedFrom(_, _, _)
groupedFrom(data, i, open) ==
    IF i > Len(data) THEN <<>>
    ELSE IF IsEX(data[i]) THEN <<data[i]>> \o groupedFrom(data, i + 1, TRUE)
    ELSE IF open THEN <<data[i]>> \o groupedFrom(data, i + 1, TRUE)
    ELSE groupedFrom(data, i + 1, FALSE)

\* The rows updateTable renders when no filter and no search term is set.
tableRows(data) == groupedFrom(data, 1, FALSE)

(***************************************************************************)
(* Inputs of the model                                                     *)
(***************************************************************************)
\* Bounds: lines per document, extractions started, edits saved, and the
\* table rows (from the top) the user clicks.
MaxLines == 3
MaxRuns == 2
MaxEdits == 1
MaxRow == 3

EX1 == <<"E", "X", "0", "0", "0", "1">>
EX2 == <<"E", "X", "0", "0", "0", "2">>
DT1 == <<"D", "T", "0", "0", "0", "1">>
DT2 == <<"D", "T", "0", "0", "0", "2">>
Total == <<"T", "o", "t", "a", "l">>

\* The rows a document page may carry, each as its text fragments from left
\* to right: a unit row, two Total rows, a unit row with a negative payload
\* and a heading that is no record.
DocRows ==
    { <<EX1, <<"1", "0">>>>,
      <<Total, <<"1", ",", "5">>>>,
      <<Total, <<"7">>>>,
      <<DT2, <<"-", "1">>>>,
      <<<<"R", "e", "p", "o", "r", "t">>>> }

RowSeqs == UNION {[1..n -> DocRows] : n \in 0..MaxLines}

\* The text items of a page showing `rows` top to bottom: row n of k sits at
\* y = k - n + 1 (2 * y half units), its fragments at x = 1, 2, ...
RECURSIVE RowItems(_, _, _)
RowItems(row, y, x) ==
    IF x > Len(row) THEN <<>>
    ELSE <<[x |-> x, y |-> 2 * y, str |-> row[x]]>> \o RowItems(row, y, x + 1)

RECURSIVE PageItems(_, _)
PageItems(rows, n) ==
    IF n > Len(rows) THEN <<>>
    ELSE RowItems(rows[n], Len(rows) - n + 1, 1) \o PageItems(rows, n + 1)

PdfType == "application/pdf"

\* A PDF file whose rows are all on one page (cut = 0) or split after the
\* first `cut` rows into two pages.
PdfFile(rows, cut) ==
    [type |-> PdfType,
     pages |-> IF cut = 0 THEN <<PageItems(rows, 1)>>
               ELSE <<PageItems(SubSeq(rows, 1, cut), 1),
                      PageItems(SubSeq(rows, cut + 1, Len(rows)), 1)>>]

PdfFilesOf(rowSeqs) ==
    UNION {{PdfFile(rows, cut) : cut \in 0..(IF Len(rows) >= 1 THEN 1 ELSE 0)} :
           rows \in rowSeqs}
PdfFiles == PdfFilesOf(RowSeqs)
OtherFile == [type |-> "text/plain", pages |-> <<>>]
NoFile == [type |-> "", pages |-> <<>>]
\* Documents whose text items come in no particular order: on the first
\* page "b" (y = 2.0) precedes "a" (y = 1.5) of the same row, on the second
\* "f" (y = -0.5) precedes "g" (y = 0.0) of the same row; the rows are not
\* listed top to bottom.
LayoutFiles ==
    LET first == << [x |-> 2, y |-> 4, str |-> <<"b">>], [x |-> 1, y |-> 3, str |-> <<"a">>],
                    [x |-> 1, y |-> 2, str |-> <<"c">>], [x |-> 3, y |-> 8, str |-> <<"d">>] >>
        second == << [x |-> 5, y |-> 0 - 1, str |-> <<"f">>], [x |-> 1, y |-> 8, str |-> <<"e">>],
                     [x |-> 2, y |-> 0, str |-> <<"g">>] >>
    IN {[type |-> PdfType, pages |-> pages] :
            pages \in {<<first>>, <<second>>, <<first, second>>, <<second, first>>}}

Files == PdfFiles \cup LayoutFiles \cup {OtherFile}

Formats == {"dot", "comma"}

\* Texts typed into the inline editor of an identifier and of a payload,
\* the keys of the status select, and texts typed as supervisor name.
EqNumTexts == {EX1, DT2, <<"X">>, <<" ">>}
PayloadTexts == {<<"5", "0", "0", "0">>, <<"-", "1">>, <<"x">>}
StatusKeys == {"under", "optimal", "overload"}
SupervisorTexts == {<<>>, <<"A">>, <<" ", "B", " ">>}

\* Arguments of a direct call of validateExtractedData: lists of at most
\* MaxItems records drawn from valid records (with payloads at both ends of
\* the range), payloads just outside the range and NaN, and identifiers the
\* pattern rejects.
MaxItems == 2
Item(eqNum, payload) ==
    [eqNum |-> eqNum, payload |-> payload, supervisor |-> <<>>, statusOverride |-> NoStatus]
ItemPool ==
    { Item(EX1, Num(0)),
      Item(DT1, Num(PayloadMax * Scale)),
      Item(EX2, Num(PayloadMax * Scale + 1)),
      Item(DT2, Num(0 - 1)),
      Item(DT2, NaN),
      Item(Total, Num(7 * Scale)),
      Item(<<"e", "x", "0", "0", "0", "1">>, Num(Scale)),
      Item(EX1 \o <<"2">>, NaN) }
ValidateInputs == UNION {[1..n -> ItemPool] : n \in 0..MaxItems}

\* The record list of loadSampleDataForTesting.
Sample(eqNum, payload, supervisor) ==
    [eqNum |-> eqNum, payload |-> Num(payload), supervisor |-> supervisor,
     statusOverride |-> NoStatus]

AhmadSubandi == <<"A", "h", "m", "a", "d", " ", "S", "u", "b", "a", "n", "d", "i">>
BudiSantoso == <<"B", "u", "d", "i", " ", "S", "a", "n", "t", "o", "s", "o">>
CandraWijaya == <<"C", "a", "n", "d", "r", "a", " ", "W", "i", "j", "a", "y", "a">>

sampleData ==
    << Sample(<<"E", "X", "2", "0", "4", "6">>, 3890, AhmadSubandi),
       Sample(<<"D", "T", "2", "0", "8", "0">>, 3740, <<>>),
       Sample(<<"D", "T", "2", "1", "5", "0">>, 4000, <<>>),
       Sample(<<"D", "T", "2", "2", "0", "0">>, 4110, <<>>),
       Sample(<<"D", "T", "2", "3", "0", "0">>, 3740, <<>>),
       Sample(<<"D", "T", "2", "4", "0", "0">>, 3850, <<>>),
       Sample(<<"D", "T", "2", "5", "0", "0">>, 4050, <<>>),
       Sample(<<"E", "X", "3", "0", "0", "1">>, 4160, BudiSantoso),
       Sample(<<"D", "T", "3", "0", "5", "0">>, 3610, <<>>),
       Sample(<<"D", "T", "3", "1", "0", "0">>, 3970, <<>>),
       Sample(<<"D", "T", "3", "2", "0", "0">>, 4290, <<>>),
       Sample(<<"D", "T", "3", "3", "0", "0">>, 4020, <<>>),
       Sample(<<"D", "T", "3", "4", "0", "0">>, 4350, <<>>),
       Sample(<<"E", "X", "4", "0", "0", "3">>, 4080, CandraWijaya),
       Sample(<<"D", "T", "4", "0", "1", "0">>, 4260, <<>>),
       Sample(<<"D", "T", "4", "0", "5", "0">>, 4000, <<>>),
       Sample(<<"D", "T", "4", "1", "0", "0">>, 4250, <<>>),
       Sample(<<"D", "T", "4", "2", "0", "0">>, 4110, <<>>),
       Sample(<<"D", "T", "4", "3", "0", "0">>, 4090, <<>>) >>

(***************************************************************************)
(* State                                                                   *)
(***************************************************************************)
VARIABLES
    fleetData,            \* FleetDashboard.fleetData
    extractedAvgPayload,  \* FleetDashboard.extractedAvgPayload
    currentEditingIndex,  \* index (from 1) of the supervisor modal's record, -1 when closed
    isUpdating,           \* FleetDashboard.isUpdating
    resetTimers,          \* pending setTimeout(() => isUpdating = false, 0) callbacks
    editor,               \* the open inline editor of editField, or NoEditor
    pendingPDFFile,       \* FleetDashboard.pendingPDFFile
    pdfModal,             \* pdfPreviewModal: "hidden", "ready", "processing" or "preview"
    preview,              \* what the Import button of the preview imports
    confirmation,         \* the callback waiting in the confirmation modal
    isInitialized,        \* PDFTextExtractor.isInitialized
    runs,                 \* the extractions in progress, by run number
    nRuns,                \* extractions started so far
    nEdits,               \* inline edits saved so far
    validation,           \* a direct call of validateExtractedData: argument and result
    call,                 \* a direct call of another pure method: arguments and result
    toasts,               \* the toasts in toastContainer, by toast number
    currentLoadingToastId,\* FleetDashboard.currentLoadingToastId, 0 for null
    nToasts               \* toasts created so far

vars == <<fleetData, extractedAvgPayload, currentEditingIndex, isUpdating, resetTimers,
          editor, pendingPDFFile, pdfModal, preview, confirmation, isInitialized,
          runs, nRuns, nEdits, validation, call, toasts, currentLoadingToastId, nToasts>>

dataVars == <<fleetData, extractedAvgPayload>>
editVars == <<currentEditingIndex, isUpdating, resetTimers, editor, nEdits>>
modalVars == <<pendingPDFFile, pdfModal, preview, confirmation>>
runVars == <<isInitialized, runs, nRuns>>
\* The toast container is followed where the status methods are called on
\* their own (SpecToast); the other specifications do not look at the
\* messages their handlers report and leave it as it is.
toastVars == <<toasts, currentLoadingToastId, nToasts>>
NoToasts == /\ toasts = <<>>
            /\ currentLoadingToastId = 0
            /\ nToasts = 0

NoIndex == 0 - 1
NoEditor == [itemIndex |-> 0, fieldType |-> "none", originalValue |-> <<>>]
NoPreview == [shown |-> FALSE, validData |-> <<>>, extractedAvgPayload |-> Null,
              averagePayload |-> <<>>]
NoCall == [fn |-> "none", done |-> FALSE, args |-> <<>>, result |-> <<>>]
NoValidation == [called |-> FALSE, data |-> <<>>, validData |-> <<>>, invalidData |-> <<>>]
NoConfirmation == [kind |-> "none", validData |-> <<>>, extractedAvgPayload |-> Null]
NoResult == [extractedData |-> <<>>, extractedAvgPayload |-> Null, totalRecords |-> 0,
             success |-> FALSE]

Init ==
    /\ NoToasts
    /\ fleetData = <<>>
    /\ extractedAvgPayload = Null
    /\ currentEditingIndex = NoIndex
    /\ isUpdating = FALSE
    /\ resetTimers = 0
    /\ editor = NoEditor
    /\ pendingPDFFile = NoFile
    /\ pdfModal = "hidden"
    /\ preview = NoPreview
    /\ confirmation = NoConfirmation
    /\ isInitialized = FALSE
    /\ runs = <<>>
    /\ nRuns = 0
    /\ nEdits = 0
    /\ validation = NoValidation
    /\ call = NoCall

(***************************************************************************)
(* Extraction: PDFTextExtractor.extractDataFromPDF as driven by             *)
(* FleetDashboard.startPDFProcessing / processPDFWithTextExtraction         *)
(***************************************************************************)
\* No modal is open and no inline editor has the focus: the page itself
\* (table, sidebar buttons, file input) takes the user's clicks.  A click
\* anywhere else while an editor has the focus blurs it first, which runs
\* saveEdit; so every click handler below waits for editor = NoEditor.
MainFree ==
    /\ pdfModal = "hidden"
    /\ confirmation = NoConfirmation
    /\ currentEditingIndex = NoIndex
    /\ editor = NoEditor

Without(f, r) == [i \in DOMAIN f \ {r} |-> f[i]]

\* Variant: the aggregate is left out of the result.
ExtractionResult_noAggregate(parsed) ==
    [extractedData |-> parsed.extractedData,
     extractedAvgPayload |-> Null,
     totalRecords |-> Len(parsed.extractedData),
     success |-> TRUE]

\* What extractDataFromPDF resolves with.
ExtractionResult(parsed) ==
    [extractedData |-> parsed.extractedData,
     extractedAvgPayload |-> parsed.extractedAvgPayload,
     totalRecords |-> Len(parsed.extractedData),
     success |-> TRUE]

\* A run of extractDataFromPDF as it starts: the promise is pending.
NewRun(file, decimalFormat) ==
    [pc |-> "reading", file |-> file, format |-> decimalFormat, page |-> 0,
     allLines |-> <<>>, error |-> "", result |-> NoResult]

NoRun == [pc |-> "none", file |-> NoFile, format |-> "", page |-> 0,
          allLines |-> <<>>, error |-> "", result |-> NoResult]

\* The run's promise rejected with `error` / resolved with `result`.
Rejected(run, error) == [run EXCEPT !.pc = "rejected", !.error = error]
Resolved(run, result) == [run EXCEPT !.pc = "resolved", !.result = result]

\* A promise has settled and the continuation awaiting it has not run yet:
\* that microtask runs before any other event is handled, so every other
\* action waits for ~MicrotaskPending.
MicrotaskPending == \E r \in DOMAIN runs : runs[r].pc \in {"resolved", "rejected"}

\* initialize(): window.pdfjsLib has arrived (it is polled every 100 ms).
Initialize ==
    /\ ~MicrotaskPending
    /\ ~isInitialized
    /\ isInitialized' = TRUE
    /\ UNCHANGED <<toastVars, call, validation, dataVars, editVars, modalVars, runs, nRuns>>

\* handleFileImport with showPDFImportModal: a PDF file becomes the pending
\* file and the modal offers "Process PDF"; any other file is only reported.
handleFileImport(file) ==
    /\ ~MicrotaskPending
    /\ MainFree
    /\ IF file.type = PdfType
       THEN /\ pendingPDFFile' = file
            /\ pdfModal' = "ready"
            /\ preview' = NoPreview
       ELSE UNCHANGED <<pendingPDFFile, pdfModal, preview>>
    /\ UNCHANGED <<toastVars, call, validation, dataVars, editVars, confirmation, runVars>>

\* cancelBtn.onclick: the handler set by showPDFImportModal also forgets
\* the pending file; the one set by showExtractionPreview only hides.
cancelPDF ==
    /\ ~MicrotaskPending
    /\ pdfModal # "hidden"
    /\ editor = NoEditor
    /\ pdfModal' = "hidden"
    /\ preview' = NoPreview
    /\ pendingPDFFile' = IF pdfModal = "preview" THEN pendingPDFFile ELSE NoFile
    /\ UNCHANGED <<toastVars, call, validation, dataVars, editVars, confirmation, runVars>>

\* Variant: the readiness of the document engine is not checked.
extractDataFromPDF_noReadyCheck(file, decimalFormat) ==
    IF file = NoFile \/ file.type # PdfType
    THEN Rejected(NewRun(file, decimalFormat), "InvalidInput")
    ELSE NewRun(file, decimalFormat)

\* extractDataFromPDF(file, decimalFormat) up to its first suspension: the
\* type and readiness checks throw, which rejects the promise at once;
\* otherwise the FileReader is started and the promise stays pending.
extractDataFromPDF(file, decimalFormat) ==
    IF file = NoFile \/ file.type # PdfType
    THEN Rejected(NewRun(file, decimalFormat), "InvalidInput")
    ELSE IF ~isInitialized
    THEN Rejected(NewRun(file, decimalFormat), "NotReady")
    ELSE NewRun(file, decimalFormat)

\* startPDFProcessing ("Process PDF"): nothing without a pending file;
\* otherwise the button is removed and processPDFWithTextExtraction calls
\* the extractor and awaits its promise.
startPDFProcessing(decimalFormat) ==
    /\ ~MicrotaskPending
    /\ pdfModal = "ready"
    /\ editor = NoEditor
    /\ nRuns < MaxRuns
    /\ IF pendingPDFFile = NoFile
       THEN UNCHANGED <<pdfModal, runs, nRuns>>
       ELSE /\ pdfModal' = "processing"
            /\ nRuns' = nRuns + 1
            /\ runs' = ((nRuns + 1) :> extractDataFromPDF(pendingPDFFile, decimalFormat))
                       @@ runs
    /\ UNCHANGED <<toastVars, call, validation, dataVars, editVars, pendingPDFFile, preview, confirmation,
                   isInitialized>>

\* fileReader.onload up to `await getDocument(...)`.
readerLoaded(r) ==
    /\ ~MicrotaskPending
    /\ r \in DOMAIN runs
    /\ runs[r].pc = "reading"
    /\ runs' = [runs EXCEPT ![r].pc = "loading"]
    /\ UNCHANGED <<toastVars, call, validation, dataVars, editVars, modalVars, isInitialized, nRuns>>

\* The FileReader ended with its error event (the file can no longer be
\* read): the reader has an onload handler only, so no code of the run is
\* ever called again and its promise is neither resolved nor rejected.
readerFailed(r) ==
    /\ ~MicrotaskPending
    /\ r \in DOMAIN runs
    /\ runs[r].pc = "reading"
    /\ runs' = [runs EXCEPT ![r].pc = "readError"]
    /\ UNCHANGED <<toastVars, call, validation, dataVars, editVars, modalVars, isInitialized, nRuns>>

\* getDocument resolved: the page loop starts with page 1.
documentLoaded(r) ==
    /\ ~MicrotaskPending
    /\ r \in DOMAIN runs
    /\ runs[r].pc = "loading"
    /\ runs' = [runs EXCEPT ![r].pc = "pages", ![r].page = 1]
    /\ UNCHANGED <<toastVars, call, validation, dataVars, editVars, modalVars, isInitialized, nRuns>>

\* An await inside onload rejected (getDocument, getPage or getTextContent):
\* the catch block rejects the extraction.
processingFailed(r) ==
    /\ ~MicrotaskPending
    /\ r \in DOMAIN runs
    /\ runs[r].pc \in {"loading", "pages"}
    /\ runs' = [runs EXCEPT ![r] = Rejected(@, "ProcessingError")]
    /\ UNCHANGED <<toastVars, call, validation, dataVars, editVars, modalVars, isInitialized, nRuns>>

\* Variant: the rejection for a document without data carries the parse.
finishExtraction_rejectWithResult(run) ==
    LET parsed == parseLines(run.allLines, run.format)
    IN IF parsed.dataFound
       THEN Resolved(run, ExtractionResult(parsed))
       ELSE Rejected([run EXCEPT !.result = ExtractionResult(parsed)], "EmptyResult")

\* The outcome of onload once every page is read: every accumulated line is
\* parsed; with dataFound the promise resolves with the result, otherwise
\* it rejects.
finishExtraction(run) ==
    LET parsed == parseLines(run.allLines, run.format)
    IN IF parsed.dataFound
       THEN Resolved(run, ExtractionResult(parsed))
       ELSE Rejected(run, "EmptyResult")

\* page.getTextContent() resolved for the current page: its lines are
\* appended to allLines and the loop moves to the next page.
pageRead(r) ==
    /\ ~MicrotaskPending
    /\ r \in DOMAIN runs
    /\ runs[r].pc = "pages"
    /\ LET run == runs[r]
           allLines == run.allLines \o pageLines(run.file.pages[run.page])
       IN runs' = [runs EXCEPT ![r] =
                      IF run.page < Len(run.file.pages)
                      THEN [run EXCEPT !.allLines = allLines, !.page = run.page + 1]
                      ELSE [run EXCEPT !.allLines = allLines, !.pc = "parsed"]]
    /\ UNCHANGED <<toastVars, call, validation, dataVars, editVars, modalVars, isInitialized, nRuns>>

\* The rest of onload after the last page (the pauses between its status
\* messages are setTimeout awaits that change no state of the model): the
\* promise settles.
settle(r) ==
    /\ ~MicrotaskPending
    /\ r \in DOMAIN runs
    /\ runs[r].pc = "parsed"
    /\ runs' = [runs EXCEPT ![r] = finishExtraction(@)]
    /\ UNCHANGED <<toastVars, call, validation, dataVars, editVars, modalVars, isInitialized, nRuns>>

\* The text showExtractionPreview displays as "Average Payload".
previewAvgPayload(statistics) == NumToString(statistics.averagePayload)

\* The preview showExtractionPreview sets up for a resolved result (the
\* records its Import button imports, the aggregate it passes on and the
\* "Average Payload" it displays, which is statistics.averagePayload), or
\* NoPreview when processPDFWithTextExtraction returns without one (a
\* rejection, or a result without records).
previewOf(run) ==
    IF run.pc = "resolved" /\ Len(run.result.extractedData) > 0
    THEN [shown |-> TRUE,
          validData |-> validateExtractedData(run.result.extractedData).validData,
          extractedAvgPayload |-> run.result.extractedAvgPayload,
          averagePayload |->
              previewAvgPayload(calculateStatistics(
                  validateExtractedData(run.result.extractedData).validData))]
    ELSE NoPreview

\* The continuation of processPDFWithTextExtraction once the promise has
\* settled, followed by the one of startPDFProcessing: a result with records
\* is validated and previewed; pendingPDFFile is reset in every case.
processed(r) ==
    /\ r \in DOMAIN runs
    /\ runs[r].pc \in {"resolved", "rejected"}
    /\ IF previewOf(runs[r]).shown
       THEN /\ pdfModal' = "preview"
            /\ preview' = previewOf(runs[r])
       ELSE UNCHANGED <<pdfModal, preview>>
    /\ runs' = Without(runs, r)
    /\ pendingPDFFile' = NoFile
    /\ UNCHANGED <<toastVars, call, validation, dataVars, editVars, confirmation, isInitialized, nRuns>>

(***************************************************************************)
(* Dashboard: import, sample load, clear-all                               *)
(***************************************************************************)
\* Variant: the valid records are appended to the current collection.
performImport_keepPrevious(validData) == initializeSupervisors(fleetData \o validData)

\* _performImport: the collection is replaced by the valid records, then
\* initializeSupervisors runs.
performImport(validData) == initializeSupervisors(validData)

\* importBtn.onclick of the preview: importExtractedData stores the
\* document's aggregate when it has one, then imports at once into an empty
\* collection and asks for confirmation otherwise (the waiting callback
\* holds validData and extractionResult); the modal is hidden.
importPDFData ==
    /\ ~MicrotaskPending
    /\ pdfModal = "preview"
    /\ editor = NoEditor
    /\ extractedAvgPayload' =
           IF preview.extractedAvgPayload # Null THEN preview.extractedAvgPayload
           ELSE extractedAvgPayload
    /\ IF Len(fleetData) > 0
       THEN /\ confirmation' = [kind |-> "import", validData |-> preview.validData,
                                  extractedAvgPayload |-> preview.extractedAvgPayload]
            /\ fleetData' = fleetData
       ELSE /\ fleetData' = performImport(preview.validData)
            /\ confirmation' = confirmation
    /\ pdfModal' = "hidden"
    /\ preview' = NoPreview
    /\ UNCHANGED <<toastVars, call, validation, editVars, pendingPDFFile, runVars>>

\* clearAllData: always asks for confirmation.
clearAllData ==
    /\ ~MicrotaskPending
    /\ MainFree
    /\ confirmation' = [kind |-> "clear", validData |-> <<>>, extractedAvgPayload |-> Null]
    /\ UNCHANGED <<toastVars, call, validation, dataVars, editVars, pendingPDFFile, pdfModal, preview, runVars>>

\* The `load` closure of loadSampleDataForTesting.
loadSample == initializeSupervisors(sampleData)

loadSampleDataForTesting ==
    /\ ~MicrotaskPending
    /\ MainFree
    /\ IF Len(fleetData) > 0
       THEN /\ confirmation' = [kind |-> "sample", validData |-> <<>>,
                                  extractedAvgPayload |-> Null]
            /\ UNCHANGED dataVars
       ELSE /\ fleetData' = loadSample
            /\ extractedAvgPayload' = Null
            /\ confirmation' = confirmation
    /\ UNCHANGED <<toastVars, call, validation, editVars, pendingPDFFile, pdfModal, preview, runVars>>

\* confirmAccept.onclick: the waiting callback runs, the modal is hidden.
confirmAccept ==
    /\ ~MicrotaskPending
    /\ confirmation # NoConfirmation
    /\ editor = NoEditor
    /\ CASE confirmation.kind = "clear" ->
              /\ fleetData' = <<>>
              /\ extractedAvgPayload' = Null
         [] confirmation.kind = "sample" ->
              /\ fleetData' = loadSample
              /\ extractedAvgPayload' = Null
         [] confirmation.kind = "import" ->
              /\ fleetData' = performImport(confirmation.validData)
              /\ extractedAvgPayload' = extractedAvgPayload
    /\ confirmation' = NoConfirmation
    /\ UNCHANGED <<toastVars, call, validation, editVars, pendingPDFFile, pdfModal, preview, runVars>>

\* confirmCancel.onclick: _hideConfirmation.
confirmCancel ==
    /\ ~MicrotaskPending
    /\ confirmation # NoConfirmation
    /\ editor = NoEditor
    /\ confirmation' = NoConfirmation
    /\ UNCHANGED <<toastVars, call, validation, dataVars, editVars, pendingPDFFile, pdfModal, preview, runVars>>

(***************************************************************************)
(* Dashboard: table clicks, supervisor modal, inline editor                *)
(***************************************************************************)
statusName(key) ==
    CASE key = "under" -> "Under" [] key = "optimal" -> "Optimal"
      [] key = "overload" -> "Overload" [] OTHER -> key

\* The originalValue editField captures for a field of an item.
originalValueOf(item, fieldType) ==
    IF fieldType = "eqNum" THEN item.eqNum
    ELSE IF fieldType = "payload" THEN toFixed1(item.payload)
    ELSE statusName(getPayloadStatus(item.payload, item.statusOverride))

Fields == {"eqNum", "payload", "status", "supervisor"}

\* Variant: the click is handled while isUpdating, too.
handleTableClick_whileUpdating(row, field) ==
    /\ ~MicrotaskPending
    /\ MainFree
    /\ row \in 1..Len(tableRows(fleetData))
    /\ LET itemIndex == findIndex(fleetData, tableRows(fleetData)[row].eqNum)
           item == fleetData[itemIndex]
       IN IF field = "supervisor"
          THEN /\ currentEditingIndex' = IF IsEX(item) THEN itemIndex ELSE currentEditingIndex
               /\ editor' = editor
          ELSE /\ nEdits < MaxEdits
               /\ editor' = [itemIndex |-> itemIndex, fieldType |-> field,
                             originalValue |-> originalValueOf(item, field)]
               /\ currentEditingIndex' = currentEditingIndex
    /\ UNCHANGED <<toastVars, call, validation, dataVars, isUpdating, resetTimers, nEdits, modalVars, runVars>>

\* _handleTableClick on cell `field` of displayed row `row`: ignored while
\* isUpdating; the record is looked up by the row's identifier; the
\* supervisor cell of an EX record opens the supervisor modal, any other
\* field opens the inline editor.
handleTableClick(row, field) ==
    /\ ~MicrotaskPending
    /\ MainFree
    /\ row \in 1..Len(tableRows(fleetData))
    /\ LET itemIndex == findIndex(fleetData, tableRows(fleetData)[row].eqNum)
           item == fleetData[itemIndex]
       IN IF isUpdating
          THEN UNCHANGED <<currentEditingIndex, editor>>
          ELSE IF field = "supervisor"
          THEN /\ currentEditingIndex' = IF IsEX(item) THEN itemIndex ELSE currentEditingIndex
               /\ editor' = editor
          ELSE /\ nEdits < MaxEdits
               /\ editor' = [itemIndex |-> itemIndex, fieldType |-> field,
                             originalValue |-> originalValueOf(item, field)]
               /\ currentEditingIndex' = currentEditingIndex
    /\ UNCHANGED <<toastVars, call, validation, dataVars, isUpdating, resetTimers, nEdits, modalVars, runVars>>

\* closeModal (Cancel, or a click on the backdrop of the supervisor modal).
closeModal ==
    /\ ~MicrotaskPending
    /\ currentEditingIndex # NoIndex
    /\ editor = NoEditor
    /\ currentEditingIndex' = NoIndex
    /\ UNCHANGED <<toastVars, call, validation, dataVars, isUpdating, resetTimers, editor, nEdits, modalVars, runVars>>

\* saveSupervisor with `text` in the name input.  When the index is past the
\* end of the collection the handler throws before changing anything.
saveSupervisor(text) ==
    /\ ~MicrotaskPending
    /\ currentEditingIndex # NoIndex
    /\ editor = NoEditor
    /\ LET supervisorName == trim(text)
       IN IF currentEditingIndex > Len(fleetData)
          THEN UNCHANGED <<fleetData, currentEditingIndex>>
          ELSE /\ fleetData' =
                     LET set == [fleetData EXCEPT
                                    ![currentEditingIndex].supervisor = supervisorName]
                     IN IF IsEX(set[currentEditingIndex])
                        THEN autoAssignSupervisor(set, currentEditingIndex, supervisorName)
                        ELSE set
               /\ currentEditingIndex' = NoIndex
    /\ UNCHANGED <<toastVars, call, validation, extractedAvgPayload, isUpdating, resetTimers, editor, nEdits,
                   modalVars, runVars>>

\* The new collection saveEdit produces for the trimmed text newValue, or
\* the unchanged collection when the value is empty, unchanged or rejected.
savedData(data, ed, newValue) ==
    IF newValue = <<>> \/ newValue = ed.originalValue THEN data
    ELSE IF ed.fieldType = "eqNum"
    THEN IF \E index \in 1..Len(data) : index # ed.itemIndex /\ data[index].eqNum = newValue
         THEN data
         ELSE [data EXCEPT ![ed.itemIndex].eqNum = newValue]
    ELSE LET payloadValue == parseFloat(newValue)
         IN IF isNaN(payloadValue) \/ NumLt(payloadValue, Num(0))
            THEN data
            ELSE [data EXCEPT ![ed.itemIndex].payload = payloadValue,
                              ![ed.itemIndex].statusOverride = NoStatus]

\* saveEdit for the status select: the option's key is compared with the
\* displayed status name captured as originalValue.
savedStatus(data, ed, newValue) ==
    IF newValue = "" \/ newValue = ed.originalValue THEN data
    ELSE [data EXCEPT ![ed.itemIndex].statusOverride = newValue]

\* saveEdit (blur or Enter) of a text editor holding `text`.
saveEdit(text) ==
    /\ ~MicrotaskPending
    /\ editor.fieldType \in {"eqNum", "payload"}
    /\ fleetData' = savedData(fleetData, editor, trim(text))
    /\ nEdits' = nEdits + 1
    /\ isUpdating' = TRUE
    /\ resetTimers' = resetTimers + 1
    /\ editor' = NoEditor
    /\ UNCHANGED <<toastVars, call, validation, extractedAvgPayload, currentEditingIndex, modalVars, runVars>>

\* saveEdit (blur or Enter) of the status select with option `key` selected.
saveStatus(key) ==
    /\ ~MicrotaskPending
    /\ editor.fieldType = "status"
    /\ fleetData' = savedStatus(fleetData, editor, key)
    /\ nEdits' = nEdits + 1
    /\ isUpdating' = TRUE
    /\ resetTimers' = resetTimers + 1
    /\ editor' = NoEditor
    /\ UNCHANGED <<toastVars, call, validation, extractedAvgPayload, currentEditingIndex, modalVars, runVars>>

\* cancelEdit (Escape).
cancelEdit ==
    /\ ~MicrotaskPending
    /\ editor # NoEditor
    /\ editor' = NoEditor
    /\ UNCHANGED <<toastVars, call, validation, dataVars, currentEditingIndex, isUpdating, resetTimers, nEdits,
                   modalVars, runVars>>

\* The callback of setTimeout(() => { this.isUpdating = false; }, 0).
resetUpdating ==
    /\ ~MicrotaskPending
    /\ resetTimers > 0
    /\ isUpdating' = FALSE
    /\ resetTimers' = resetTimers - 1
    /\ UNCHANGED <<toastVars, call, validation, dataVars, currentEditingIndex, editor, nEdits, modalVars, runVars>>

(***************************************************************************)
(* Specifications                                                          *)
(***************************************************************************)
\* The documents of the dashboard specification: a group with a Total row,
\* two groups with an invalid record and no Total, a truck before the first
\* excavator with a repeated excavator, a Total row alone, no record at
\* all, and only an invalid record with a Total.
DashRowSeqs ==
    { << <<EX1, <<"1", "0">>>>, <<DT1, <<"3", "0">>>>, <<Total, <<"1", ",", "5">>>> >>,
      << <<EX1, <<"1", "0">>>>, <<DT1, <<"2", "0">>>>, <<EX2, <<"3", "0">>>>,
         <<DT2, <<"-", "1">>>> >>,
      << <<DT1, <<"2", "0">>>>, <<EX1, <<"1", "0">>>>, <<EX1, <<"1", "0", "0">>>> >>,
      << <<Total, <<"7">>>> >>,
      << <<<<"R", "e", "p", "o", "r", "t">>>> >>,
      << <<DT2, <<"-", "1">>>>, <<Total, <<"7">>>> >> }

DashFiles == {PdfFile(rows, 0) : rows \in DashRowSeqs} \cup {OtherFile}

\* No extraction is in progress.
Idle == DOMAIN runs = {}

\* The dashboard specification.  The steps of an extraction read and write
\* only the extraction's own state, the pending file and the preview modal,
\* so the user's actions on the page are explored between extractions
\* (Idle) and not interleaved with every step of one; documents are
\* processed in the default format.
Next ==
    \/ Initialize
    \/ \E file \in DashFiles : Idle /\ handleFileImport(file)
    \/ cancelPDF
    \/ startPDFProcessing("dot")
    \/ \E r \in 1..MaxRuns : readerLoaded(r)
    \/ \E r \in 1..MaxRuns : documentLoaded(r)
    \/ \E r \in 1..MaxRuns : processingFailed(r)
    \/ \E r \in 1..MaxRuns : pageRead(r)
    \/ \E r \in 1..MaxRuns : settle(r)
    \/ \E r \in 1..MaxRuns : processed(r)
    \/ importPDFData
    \/ Idle /\ clearAllData
    \/ Idle /\ loadSampleDataForTesting
    \/ confirmAccept
    \/ confirmCancel
    \/ \E row \in 1..MaxRow, field \in Fields : Idle /\ handleTableClick(row, field)
    \/ closeModal
    \/ \E text \in SupervisorTexts : saveSupervisor(text)
    \/ \E text \in EqNumTexts \cup PayloadTexts : saveEdit(text)
    \/ \E key \in StatusKeys : saveStatus(key)
    \/ cancelEdit
    \/ resetUpdating

Spec == Init /\ [][Next]_vars

\* The editing specification: the dashboard without the PDF import; the
\* collection is the sample data (or empty), changed by supervisor saves
\* and inline edits.
NextEdit ==
    \/ clearAllData
    \/ loadSampleDataForTesting
    \/ confirmAccept
    \/ confirmCancel
    \/ \E row \in 1..MaxRow, field \in Fields : handleTableClick(row, field)
    \/ closeModal
    \/ \E text \in SupervisorTexts : saveSupervisor(text)
    \/ \E text \in EqNumTexts \cup PayloadTexts : saveEdit(text)
    \/ \E key \in StatusKeys : saveStatus(key)
    \/ cancelEdit
    \/ resetUpdating

SpecEdit == Init /\ [][NextEdit]_vars

\* The extraction specification: documents of at most MaxLines rows drawn
\* from DocRows, on one page or two, in either decimal format; a file is
\* chosen between extractions, and nothing is imported.
NextExtract ==
    \/ Initialize
    \/ \E file \in Files : Idle /\ handleFileImport(file)
    \/ cancelPDF
    \/ \E decimalFormat \in Formats : startPDFProcessing(decimalFormat)
    \/ \E r \in 1..MaxRuns : readerLoaded(r)
    \/ \E r \in 1..MaxRuns : documentLoaded(r)
    \/ \E r \in 1..MaxRuns : processingFailed(r)
    \/ \E r \in 1..MaxRuns : pageRead(r)
    \/ \E r \in 1..MaxRuns : settle(r)
    \/ \E r \in 1..MaxRuns : processed(r)

SpecExtract == Init /\ [][NextExtract]_vars

\* The import specification: the dashboard without the editing of records;
\* documents are processed in either format, previewed and imported into
\* an empty collection or, after confirmation, over the current one.
NextImport ==
    \/ Initialize
    \/ \E file \in DashFiles : Idle /\ handleFileImport(file)
    \/ cancelPDF
    \/ \E decimalFormat \in Formats : startPDFProcessing(decimalFormat)
    \/ \E r \in 1..MaxRuns : readerLoaded(r)
    \/ \E r \in 1..MaxRuns : documentLoaded(r)
    \/ \E r \in 1..MaxRuns : processingFailed(r)
    \/ \E r \in 1..MaxRuns : pageRead(r)
    \/ \E r \in 1..MaxRuns : settle(r)
    \/ \E r \in 1..MaxRuns : processed(r)
    \/ importPDFData
    \/ Idle /\ clearAllData
    \/ Idle /\ loadSampleDataForTesting
    \/ confirmAccept
    \/ confirmCancel

SpecImport == Init /\ [][NextImport]_vars

\* The extraction specification with every outcome of the file read and
\* with progress: a started file read ends with its load or its error
\* event, a pending getDocument, getPage or getTextContent promise settles
\* one way or the other, onload runs to its end once the pages are read,
\* and the continuation of a settled promise runs (Progress). The documents
\* have one or two pages of text.
SettleFiles ==
    PdfFilesOf({ << <<<<"R", "e", "p", "o", "r", "t">>>> >>,
                 << <<<<"R", "e", "p", "o", "r", "t">>>>, <<<<"T", "o", "t", "a", "l">>>> >> })

NextSettle ==
    \/ Initialize
    \/ \E file \in SettleFiles : Idle /\ handleFileImport(file)
    \/ cancelPDF
    \/ \E decimalFormat \in Formats : startPDFProcessing(decimalFormat)
    \/ \E r \in 1..MaxRuns : readerLoaded(r)
    \/ \E r \in 1..MaxRuns : readerFailed(r)
    \/ \E r \in 1..MaxRuns : documentLoaded(r)
    \/ \E r \in 1..MaxRuns : processingFailed(r)
    \/ \E r \in 1..MaxRuns : pageRead(r)
    \/ \E r \in 1..MaxRuns : settle(r)
    \/ \E r \in 1..MaxRuns : processed(r)

\* A step of run r of extractDataFromPDF or of the continuation awaiting it.
runStep(r) ==
    \/ readerLoaded(r)
    \/ readerFailed(r)
    \/ documentLoaded(r)
    \/ processingFailed(r)
    \/ pageRead(r)
    \/ settle(r)
    \/ processed(r)

\* While some run has a step to take, one of them is taken; every run takes
\* finitely many steps, so no run with a step to take waits forever.
Progress == WF_vars(\E r \in 1..MaxRuns : runStep(r))

SpecSettle == Init /\ [][NextSettle]_vars /\ Progress

(***************************************************************************)
(* Status messages: showStatusMessage, hideToast and the loading state     *)
(***************************************************************************)
\* statusMessages.types[type].duration, the same for every type (config.js).
TypeDuration == 7000

ToastTypes == {"info", "success", "processing"}

\* Toasts created in a behaviour of SpecToast.
MaxToasts == 3

\* customDuration || typeConfig.duration: null and 0 both give way to the
\* duration of the type.
durationOf(customDuration) ==
    IF Truthy(customDuration) THEN customDuration ELSE Num(TypeDuration)

\* The toast showStatusMessage(message, type, customDuration) creates:
\* `persistent` records that it was asked for with duration 0, `timer` that
\* the auto-hide setTimeout was set (duration > 0).
toastOf(type, customDuration) ==
    [type |-> type,
     persistent |-> customDuration = Num(0),
     state |-> "shown",
     timer |-> NumGt(durationOf(customDuration), Num(0))]

\* toasts after showStatusMessage; the new toast's number is nToasts + 1.
shown(type, customDuration) == Append(toasts, toastOf(type, customDuration))

\* toasts after hideToast(toastId): a toast still in the container fades
\* out (its removal is set for 300 ms later); no other toast is touched.
hidden(toastId) ==
    [id \in DOMAIN toasts |->
        IF id = toastId /\ toasts[id].state # "removed"
        THEN [toasts[id] EXCEPT !.state = "hiding"]
        ELSE toasts[id]]

InContainer(toastId) ==
    toastId \in DOMAIN toasts /\ toasts[toastId].state # "removed"

showStatusMessage(type, customDuration) ==
    /\ nToasts < MaxToasts
    /\ toasts' = shown(type, customDuration)
    /\ nToasts' = nToasts + 1
    /\ UNCHANGED <<currentLoadingToastId, call, validation, dataVars, editVars, modalVars,
                   runVars>>

\* showLoadingState: showStatusMessage(message, 'processing', 0), whose
\* toast becomes the loading toast.
showLoadingState ==
    /\ nToasts < MaxToasts
    /\ toasts' = shown("processing", Num(0))
    /\ nToasts' = nToasts + 1
    /\ currentLoadingToastId' = nToasts + 1
    /\ UNCHANGED <<call, validation, dataVars, editVars, modalVars, runVars>>

\* updateLoadingState: the text of the loading toast is replaced while it
\* is in the container; otherwise a new loading state is shown.
updateLoadingState ==
    /\ IF currentLoadingToastId # 0 /\ InContainer(currentLoadingToastId)
       THEN UNCHANGED toastVars
       ELSE /\ nToasts < MaxToasts
            /\ toasts' = shown("processing", Num(0))
            /\ nToasts' = nToasts + 1
            /\ currentLoadingToastId' = nToasts + 1
    /\ UNCHANGED <<call, validation, dataVars, editVars, modalVars, runVars>>

hideLoadingState ==
    /\ currentLoadingToastId # 0
    /\ toasts' = hidden(currentLoadingToastId)
    /\ currentLoadingToastId' = 0
    /\ UNCHANGED <<nToasts, call, validation, dataVars, editVars, modalVars, runVars>>

\* The close button of a toast: hideToast(toastId).
hideToast(toastId) ==
    /\ InContainer(toastId)
    /\ toasts[toastId].state = "shown"
    /\ toasts' = hidden(toastId)
    /\ UNCHANGED <<currentLoadingToastId, nToasts, call, validation, dataVars, editVars,
                   modalVars, runVars>>

\* The auto-hide timer of showStatusMessage fires: hideToast(toastId).
autoHide(toastId) ==
    /\ toastId \in DOMAIN toasts
    /\ toasts[toastId].timer
    /\ toasts' = [hidden(toastId) EXCEPT ![toastId].timer = FALSE]
    /\ UNCHANGED <<currentLoadingToastId, nToasts, call, validation, dataVars, editVars,
                   modalVars, runVars>>

\* The removal timer of hideToast fires: the toast leaves the container.
removeToast(toastId) ==
    /\ toastId \in DOMAIN toasts
    /\ toasts[toastId].state = "hiding"
    /\ toasts' = [toasts EXCEPT ![toastId].state = "removed"]
    /\ UNCHANGED <<currentLoadingToastId, nToasts, call, validation, dataVars, editVars,
                   modalVars, runVars>>

\* The status specification: messages of every type with no, a zero and a
\* positive custom duration, the loading state, the close buttons and the
\* timers.
NextToast ==
    \/ \E type \in ToastTypes, customDuration \in {Null, Num(0), Num(3000)} :
           showStatusMessage(type, customDuration)
    \/ showLoadingState
    \/ updateLoadingState
    \/ hideLoadingState
    \/ \E toastId \in 1..MaxToasts : hideToast(toastId)
    \/ \E toastId \in 1..MaxToasts : autoHide(toastId)
    \/ \E toastId \in 1..MaxToasts : removeToast(toastId)

SpecToast == Init /\ [][NextToast]_vars

\* The validation specification: validateExtractedData is called once on
\* an argument drawn from ValidateInputs.
validateCall ==
    /\ ~validation.called
    /\ validation' =
           [called |-> TRUE, data |-> validation.data,
            validData |-> validateExtractedData(validation.data).validData,
            invalidData |-> validateExtractedData(validation.data).invalidData]
    /\ UNCHANGED <<toastVars, call, dataVars, editVars, modalVars, runVars>>

InitValidate ==
    /\ NoToasts
    /\ fleetData = <<>>
    /\ extractedAvgPayload = Null
    /\ currentEditingIndex = NoIndex
    /\ isUpdating = FALSE
    /\ resetTimers = 0
    /\ editor = NoEditor
    /\ pendingPDFFile = NoFile
    /\ pdfModal = "hidden"
    /\ preview = NoPreview
    /\ confirmation = NoConfirmation
    /\ isInitialized = FALSE
    /\ runs = <<>>
    /\ nRuns = 0
    /\ nEdits = 0
    /\ \E data \in ValidateInputs : validation = [NoValidation EXCEPT !.data = data]
    /\ call = NoCall

SpecValidate == InitValidate /\ [][validateCall]_vars

\* The specification of the pure methods: one method is called once on
\* arguments drawn from the sets below.
\* Payloads around both thresholds, at both ends of the valid range and
\* outside it, in units of 1 / Scale.
StatusPayloads ==
    {0 - 1, 0, 50 * Scale, OptimalMin * Scale - 1, OptimalMin * Scale,
     OptimalMin * Scale + 1, 100 * Scale, OptimalMax * Scale - 1, OptimalMax * Scale,
     OptimalMax * Scale + 1, 200 * Scale, PayloadMax * Scale, PayloadMax * Scale + 1}
StatusOverrides == StatusKeys \cup {NoStatus, "Under"}
StatusCalls ==
    {[fn |-> "getPayloadStatus", done |-> FALSE,
      args |-> [payload |-> Num(p), statusOverride |-> o], result |-> ""] :
         p \in StatusPayloads, o \in StatusOverrides}

getPayloadStatusCall ==
    /\ call.fn = "getPayloadStatus"
    /\ ~call.done
    /\ call' = [call EXCEPT !.done = TRUE,
                            !.result = getPayloadStatus(call.args.payload,
                                                        call.args.statusOverride)]
    /\ UNCHANGED <<toastVars, validation, dataVars, editVars, modalVars, runVars>>

\* The state of a session in which nothing has happened yet, but for call
\* and for the extractor's initialization.
InitSession ==
    /\ NoToasts
    /\ fleetData = <<>>
    /\ extractedAvgPayload = Null
    /\ currentEditingIndex = NoIndex
    /\ isUpdating = FALSE
    /\ resetTimers = 0
    /\ editor = NoEditor
    /\ pendingPDFFile = NoFile
    /\ pdfModal = "hidden"
    /\ preview = NoPreview
    /\ confirmation = NoConfirmation
    /\ runs = <<>>
    /\ nRuns = 0
    /\ nEdits = 0
    /\ validation = NoValidation

\* Direct calls of extractDataFromPDF: without a file, with a file of
\* another type and with PDF files, before or after initialize().
ExtractCalls ==
    {[fn |-> "extractDataFromPDF", done |-> FALSE,
      args |-> [file |-> file, decimalFormat |-> decimalFormat], result |-> NoRun] :
         file \in {NoFile, OtherFile} \cup DashFiles, decimalFormat \in Formats}

\* The call up to its first suspension.
extractDataFromPDFCall ==
    /\ call.fn = "extractDataFromPDF"
    /\ ~call.done
    /\ call' = [call EXCEPT !.done = TRUE,
                            !.result = extractDataFromPDF(call.args.file,
                                                          call.args.decimalFormat)]
    /\ UNCHANGED <<toastVars, validation, dataVars, editVars, modalVars, runVars>>

\* Lines put to dataRegex: with and without leading white space, an
\* identifier (well-formed, with three or five digits, in lower case, with
\* a letter among the digits, "Totals"), no, one or two white-space
\* characters, and a rest (nothing, numeric tokens, tokens with a letter
\* before or after, two tokens).
MatchCalls ==
    LET leads == {<<>>, <<" ">>}
        ids == {EX1, DT2, Total, <<"E", "X", "0", "0", "1">>,
                <<"E", "X", "0", "0", "0", "1", "2">>, <<"e", "x", "0", "0", "0", "1">>,
                <<"D", "T", "0", "0", "0", "a">>, <<"T", "o", "t", "a", "l", "s">>}
        seps == {<<>>, <<" ">>, <<" ", "\t">>}
        rests == {<<>>, <<"1">>, <<"1", ",", "5">>, <<"-", "1", ".">>, <<"x", "1">>,
                  <<"1", "x">>, <<"1", " ", "2">>}
    IN {[fn |-> "match", done |-> FALSE, args |-> [line |-> lead \o id \o sep \o rest],
         result |-> NoMatch] :
            lead \in leads, id \in ids, sep \in seps, rest \in rests}

\* line.match(dataRegex) as the forEach of extractDataFromPDF applies it.
matchCall ==
    /\ call.fn = "match"
    /\ ~call.done
    /\ call' = [call EXCEPT !.done = TRUE, !.result = dataRegexMatch(call.args.line)]
    /\ UNCHANGED <<toastVars, validation, dataVars, editVars, modalVars, runVars>>

\* Tokens put to normalizeNumber in both formats: every string of up to
\* MaxToken characters over a digit, the dot and the comma, and the two
\* thousands-and-decimals tokens.
MaxToken == 4
NormalizeCalls ==
    LET tokens == UNION {[1..n -> {"1", ".", ",", "-"}] : n \in 0..MaxToken}
                  \cup {<<"1", ".", "2", "3", "4", ",", "5">>,
                         <<"1", ",", "2", "3", "4", ".", "5">>}
    IN {[fn |-> "normalizeNumber", done |-> FALSE,
         args |-> [str |-> str, format |-> format], result |-> <<>>] :
            str \in tokens, format \in Formats}

normalizeNumberCall ==
    /\ call.fn = "normalizeNumber"
    /\ ~call.done
    /\ call' = [call EXCEPT !.done = TRUE,
                            !.result = normalizeNumber(call.args.str, call.args.format)]
    /\ UNCHANGED <<toastVars, validation, dataVars, editVars, modalVars, runVars>>

\* Record lists put to calculateStatistics: up to MaxStats valid records, as
\* processPDFWithTextExtraction passes them, with payloads at both ends of
\* the range and means that fall between two tenths.
MaxStats == 3
StatisticsCalls ==
    LET pool == { Item(EX1, Num(0)), Item(EX2, Num(5)), Item(DT1, Num(10 * Scale + 10)),
                  Item(DT2, Num(PayloadMax * Scale)), Item(DT1, Num(30 * Scale)) }
    IN {[fn |-> "calculateStatistics", done |-> FALSE, args |-> [data |-> data],
         result |-> calculateStatistics(<<>>)] :
            data \in UNION {[1..n -> pool] : n \in 0..MaxStats}}

calculateStatisticsCall ==
    /\ call.fn = "calculateStatistics"
    /\ ~call.done
    /\ call' = [call EXCEPT !.done = TRUE, !.result = calculateStatistics(call.args.data)]
    /\ UNCHANGED <<toastVars, validation, dataVars, editVars, modalVars, runVars>>

InitPure ==
    /\ InitSession
    /\ isInitialized \in BOOLEAN
    /\ \/ \E c \in StatusCalls : call = c
       \/ \E c \in ExtractCalls : call = c
       \/ \E c \in MatchCalls : call = c
       \/ \E c \in NormalizeCalls : call = c
       \/ \E c \in StatisticsCalls : call = c

NextPure ==
    \/ getPayloadStatusCall
    \/ extractDataFromPDFCall
    \/ matchCall
    \/ normalizeNumberCall
    \/ calculateStatisticsCall

SpecPure == InitPure /\ [][NextPure]_vars

(***************************************************************************)
(* Properties of the extraction (SpecExtract)                              *)
(***************************************************************************)
\* The lines of a document in reading order: the lines of its pages.
RECURSIVE DocumentLines(_, _)
DocumentLines(file, n) ==
    IF n > Len(file.pages) THEN <<>>
    ELSE pageLines(file.pages[n]) \o DocumentLines(file, n + 1)

IsTotalLine(line) == dataRegexMatch(line).ok /\ dataRegexMatch(line).eqNum = Total
IsUnitLine(line) == dataRegexMatch(line).ok /\ dataRegexMatch(line).eqNum # Total

\* The unit (EX/DT) lines and the Total lines among lines, in line order.
UnitLines(lines) == SelectSeq(lines, IsUnitLine)
TotalLines(lines) == SelectSeq(lines, IsTotalLine)

\* The number a matched line carries in the given decimal format.
LineValue(line, decimalFormat) ==
    parseFloat(normalizeNumber(dataRegexMatch(line).raw, decimalFormat))

\* C1: when an extraction has read the whole document and no unit (EX/DT)
\* line matched in it, the promise is rejected with EmptyResult; Total lines
\* alone never make it resolve.
C1_NoUnitLineRejects ==
    [][\A r \in 1..MaxRuns :
           (settle(r) /\ UnitLines(DocumentLines(runs[r].file, 1)) = <<>>)
           => (runs'[r].pc = "rejected" /\ runs'[r].error = "EmptyResult")]_vars

\* C2: a resolved extraction carries, for the unit lines of the document in
\* line order, one record each with the matched identifier, the normalized
\* parsed payload and an empty supervisor; totalRecords is the length of
\* that list and success is true.
C2_RecordsAreUnitLines ==
    \A r \in DOMAIN runs :
        runs[r].pc = "resolved" =>
            LET lines == UnitLines(DocumentLines(runs[r].file, 1))
                result == runs[r].result
            IN /\ Len(result.extractedData) = Len(lines)
               /\ \A n \in 1..Len(lines) :
                      /\ result.extractedData[n].eqNum = dataRegexMatch(lines[n]).eqNum
                      /\ result.extractedData[n].payload = LineValue(lines[n], runs[r].format)
                      /\ result.extractedData[n].supervisor = <<>>
               /\ result.totalRecords = Len(lines)
               /\ result.success

\* A two-page document in comma format has resolved with two records and a
\* line that is no record.
C2_Witness ==
    \E r \in DOMAIN runs :
        /\ runs[r].pc = "resolved"
        /\ runs[r].format = "comma"
        /\ Len(runs[r].file.pages) = 2
        /\ Len(runs[r].allLines) = 3
        /\ Len(runs[r].result.extractedData) = 2

\* C3: a resolved extraction has no record for a Total line; its aggregate is
\* the value of the last Total line of the document, and null when the
\* document has none.
C3_LastTotalIsAggregate ==
    \A r \in DOMAIN runs :
        runs[r].pc = "resolved" =>
            LET totals == TotalLines(DocumentLines(runs[r].file, 1))
                result == runs[r].result
            IN /\ \A n \in 1..Len(result.extractedData) :
                      result.extractedData[n].eqNum # Total
               /\ result.extractedAvgPayload =
                      IF totals = <<>> THEN Null
                      ELSE LineValue(totals[Len(totals)], runs[r].format)

\* A document with two Total lines of different values has resolved.
C3_Witness ==
    \E r \in DOMAIN runs :
        /\ runs[r].pc = "resolved"
        /\ LET totals == TotalLines(runs[r].allLines)
           IN /\ Len(totals) = 2
              /\ LineValue(totals[1], runs[r].format) # LineValue(totals[2], runs[r].format)
        /\ Len(runs[r].result.extractedData) = 1

(***************************************************************************)
(* Properties of the dashboard (Spec, SpecEdit)                            *)
(***************************************************************************)
\* C4: no two records of the fleet collection carry the same equipment
\* number.
C4_UniqueEquipmentNumbers ==
    \A i, j \in 1..Len(fleetData) :
        i # j => fleetData[i].eqNum # fleetData[j].eqNum

\* C5: every record of the fleet collection has an equipment number of the
\* form EX or DT followed by four digits and a payload in [0, 1000].
C5_RecordsWellFormed ==
    \A i \in 1..Len(fleetData) :
        /\ Len(fleetData[i].eqNum) = 6
        /\ SubSeq(fleetData[i].eqNum, 1, 2) \in {<<"E", "X">>, <<"D", "T">>}
        /\ \A n \in 3..6 : fleetData[i].eqNum[n] \in Digits
        /\ IsNum(fleetData[i].payload)
        /\ fleetData[i].payload.v >= PayloadMin * Scale
        /\ fleetData[i].payload.v <= PayloadMax * Scale

\* The index after the group of the EX record at index k: the index of the
\* next EX record, or one past the end of the collection.
GroupEnd(data, k) ==
    IF \E j \in (k + 1)..Len(data) : IsEX(data[j])
    THEN CHOOSE j \in (k + 1)..Len(data) :
             IsEX(data[j]) /\ \A m \in (k + 1)..(j - 1) : ~IsEX(data[m])
    ELSE Len(data) + 1

\* C6: saving the supervisor of the EX record at index k gives the saved
\* name to that record and to exactly the DT records after it and before
\* the next EX record; every other supervisor, and every other field of
\* every record, stays as it was.
C6_SupervisorSavedToGroup ==
    [][\A text \in SupervisorTexts :
           (saveSupervisor(text) /\ currentEditingIndex \in 1..Len(fleetData)
                                 /\ IsEX(fleetData[currentEditingIndex]))
           => LET k == currentEditingIndex
              IN /\ Len(fleetData') = Len(fleetData)
                 /\ \A i \in 1..Len(fleetData) :
                        /\ fleetData'[i].supervisor =
                               IF i = k \/ (/\ i > k
                                            /\ i < GroupEnd(fleetData, k)
                                            /\ IsDT(fleetData[i]))
                               THEN trim(text)
                               ELSE fleetData[i].supervisor
                        /\ fleetData'[i].eqNum = fleetData[i].eqNum
                        /\ fleetData'[i].payload = fleetData[i].payload
                        /\ fleetData'[i].statusOverride = fleetData[i].statusOverride]_vars

\* The name typed as " B " has been saved for an EX record: the record and
\* the DT records of its group carry "B", and a DT record of a later group
\* carries another supervisor.
C6_Witness ==
    \E k \in 1..Len(fleetData) :
        /\ IsEX(fleetData[k])
        /\ fleetData[k].supervisor = <<"B">>
        /\ GroupEnd(fleetData, k) > k + 1
        /\ \A i \in (k + 1)..(GroupEnd(fleetData, k) - 1) :
               IsDT(fleetData[i]) /\ fleetData[i].supervisor = <<"B">>
        /\ \E i \in GroupEnd(fleetData, k)..Len(fleetData) :
               IsDT(fleetData[i]) /\ fleetData[i].supervisor # <<"B">>

\* C7: the stored aggregate changes only in a step of an import that
\* replaces the collection, or becomes absent in a step of clear-all or
\* sample-load; no other step changes it.
C7_AggregateLifecycle ==
    [][extractedAvgPayload' # extractedAvgPayload
       => \/ /\ importPDFData \/ (confirmAccept /\ confirmation.kind = "import")
             /\ \E validData \in {preview.validData, confirmation.validData} :
                    fleetData' = performImport(validData)
          \/ /\ confirmAccept /\ confirmation.kind \in {"clear", "sample"}
             /\ extractedAvgPayload' = Null
          \/ /\ loadSampleDataForTesting
             /\ extractedAvgPayload' = Null]_vars

\* The value a text displays.
Shown(text) == parseFloat(text)

\* The average a display is to show, to one decimal: the aggregate when one
\* is present, the mean of the payloads otherwise.
AverageToShow(data, aggregate) ==
    IF aggregate = Null THEN Num(RoundTenths(SumV(data), Len(data)) * (Scale \div 10))
    ELSE IF isNaN(aggregate) THEN NaN
    ELSE Num(RoundTenths(aggregate.v, 1) * (Scale \div 10))

\* C8: with records to summarize, the dashboard summary, the share caption
\* and the shared report show the stored aggregate when one is present and
\* the mean of the payloads otherwise; the import preview does the same with
\* the document's aggregate and the records it is about to import.
C8_AggregateOverridesMean ==
    /\ Len(fleetData) > 0 =>
           /\ Shown(summaryAvgPayload(fleetData, extractedAvgPayload))
                  = AverageToShow(fleetData, extractedAvgPayload)
           /\ Shown(captionAvgPayload(fleetData, extractedAvgPayload))
                  = AverageToShow(fleetData, extractedAvgPayload)
           /\ Shown(reportAvgPayload(fleetData, extractedAvgPayload))
                  = AverageToShow(fleetData, extractedAvgPayload)
    /\ (preview.shown /\ Len(preview.validData) > 0) =>
           Shown(preview.averagePayload)
               = AverageToShow(preview.validData, preview.extractedAvgPayload)

(***************************************************************************)
(* Properties of the validation (SpecValidate)                             *)
(***************************************************************************)
\* The items of data at the indices in S, in ascending order of index.
RECURSIVE Pick(_, _, _)
Pick(data, S, i) ==
    IF i > Len(data) THEN <<>>
    ELSE (IF i \in S THEN <<data[i]>> ELSE <<>>) \o Pick(data, S, i + 1)

\* An item of invalidData without its issues.
StripIssues(item) ==
    [eqNum |-> item.eqNum, payload |-> item.payload, supervisor |-> item.supervisor,
     statusOverride |-> item.statusOverride]

\* C9: the indices of the input split into two sets such that validData is
\* the input's items at the one set and invalidData (issues aside) the items
\* at the other, each in input order; so every input record is in exactly
\* one output and the lengths add up.
C9_ValidatePartitions ==
    validation.called =>
        /\ Len(validation.validData) + Len(validation.invalidData) = Len(validation.data)
        /\ \E S \in SUBSET (1..Len(validation.data)) :
               /\ validation.validData = Pick(validation.data, S, 1)
               /\ [n \in 1..Len(validation.invalidData) |->
                       StripIssues(validation.invalidData[n])]
                      = Pick(validation.data, (1..Len(validation.data)) \ S, 1)

\* A list of two different records was validated, the first invalid and the
\* second valid.
C9_Witness ==
    /\ validation.called
    /\ Len(validation.data) = 2
    /\ validation.validData = <<validation.data[2]>>
    /\ Len(validation.invalidData) = 1
    /\ StripIssues(validation.invalidData[1]) = validation.data[1]
    /\ validation.data[1] # validation.data[2]

\* The two checks of a record: the identifier is EX or DT followed by four
\* digits; the payload is a number from 0 to 1000.
IdentifierOk(item) ==
    /\ Len(item.eqNum) = 6
    /\ <<item.eqNum[1], item.eqNum[2]>> \in {<<"E", "X">>, <<"D", "T">>}
    /\ \A n \in 3..6 : item.eqNum[n] \in Digits
PayloadOk(item) ==
    /\ item.payload.k = "num"
    /\ item.payload.v >= 0
    /\ item.payload.v <= 1000 * Scale

\* C10: validData holds exactly the records passing both checks;
\* invalidData holds the others, each with one reason per failed check: the
\* identifier's reason first when both fail.
C10_ValidIffBothChecksPass ==
    validation.called =>
        LET Valid(item) == IdentifierOk(item) /\ PayloadOk(item)
            Invalid(item) == ~Valid(item)
            rejected == SelectSeq(validation.data, Invalid)
        IN /\ validation.validData = SelectSeq(validation.data, Valid)
           /\ Len(validation.invalidData) = Len(rejected)
           /\ \A n \in 1..Len(rejected) :
                  /\ StripIssues(validation.invalidData[n]) = rejected[n]
                  /\ validation.invalidData[n].issues =
                         (IF IdentifierOk(rejected[n]) THEN <<>>
                          ELSE <<"Invalid equipment number format">>)
                         \o (IF PayloadOk(rejected[n]) THEN <<>>
                             ELSE <<"Payload out of valid range (0-1000 ton)">>)

\* A list was validated that holds a record failing both checks and a
\* record failing only the payload check at the upper end of the range.
C10_Witness ==
    /\ validation.called
    /\ \E n \in 1..Len(validation.invalidData) :
           Len(validation.invalidData[n].issues) = 2
    /\ \E n \in 1..Len(validation.invalidData) :
           /\ Len(validation.invalidData[n].issues) = 1
           /\ validation.invalidData[n].payload = Num(PayloadMax * Scale + 1)

(***************************************************************************)
(* Properties of the pure methods (SpecPure)                               *)
(***************************************************************************)
\* C11: getPayloadStatus returns the override when one is given; otherwise
\* "under" below 98, "optimal" from 98 to 105 (both included) and
\* "overload" above 105.
C11_StatusBands ==
    (call.fn = "getPayloadStatus" /\ call.done) =>
        LET p == call.args.payload.v
            override == call.args.statusOverride
        IN IF override # "none" THEN call.result = override
           ELSE /\ call.result = "under" <=> p < 98 * Scale
                /\ call.result = "optimal" <=> (p >= 98 * Scale /\ p <= 105 * Scale)
                /\ call.result = "overload" <=> p > 105 * Scale

\* The status of the payload 105 without an override has been computed.
C11_Witness ==
    /\ call.fn = "getPayloadStatus"
    /\ call.done
    /\ call.args.statusOverride = "none"
    /\ call.args.payload = Num(105 * Scale)
    /\ call.result = "optimal"

\* C12: a call of extractDataFromPDF without a file or with a file that is
\* no PDF is rejected at once with InvalidInput, and a call made before the
\* document engine is initialized is rejected at once with NotReady: no
\* page is read, no line is accumulated and there is no result.
C12_RejectsBeforeReading ==
    (call.fn = "extractDataFromPDF" /\ call.done) =>
        LET file == call.args.file
            badFile == file.type # "application/pdf"
            run == call.result
        IN (badFile \/ ~isInitialized) =>
               /\ run.pc = "rejected"
               /\ run.error = IF badFile THEN "InvalidInput" ELSE "NotReady"
               /\ run.page = 0
               /\ run.allLines = <<>>
               /\ run.result = NoResult

\* A PDF file with a unit line was passed before the engine was initialized.
C12_Witness ==
    /\ call.fn = "extractDataFromPDF"
    /\ call.done
    /\ ~isInitialized
    /\ call.args.file.type = "application/pdf"
    /\ UnitLines(DocumentLines(call.args.file, 1)) # <<>>
    /\ call.result.error = "NotReady"

\* line is lead white space (a characters), an identifier of idLen
\* characters, sepLen >= 1 white-space characters and a numeric run of
\* numLen >= 1 characters that ends at the end of the line or before a
\* character that is not numeric.
IsIdentifier(id) ==
    \/ id = <<"T", "o", "t", "a", "l">>
    \/ /\ Len(id) = 6
       /\ <<id[1], id[2]>> \in {<<"E", "X">>, <<"D", "T">>}
       /\ \A n \in 3..6 : id[n] \in Digits
Decomposes(line, a, idLen, sepLen, numLen) ==
    LET b == a + idLen
        c == b + sepLen
        d == c + numLen
    IN /\ d <= Len(line)
       /\ \A p \in 1..a : IsSpace(line[p])
       /\ IsIdentifier(SubSeq(line, a + 1, b))
       /\ \A p \in (b + 1)..c : IsSpace(line[p])
       /\ \A p \in (c + 1)..d : IsNumericChar(line[p])
       /\ d = Len(line) \/ ~IsNumericChar(line[d + 1])

\* C17: a line matches exactly when it decomposes into optional white
\* space, EX or DT with exactly four digits or Total, at least one
\* white-space character and a non-empty numeric run; the match captures
\* that identifier and that first numeric run only.
C17_MatchGrammar ==
    (call.fn = "match" /\ call.done) =>
        LET line == call.args.line
            N == 0..Len(line)
            P == 1..Len(line)
        IN /\ call.result.ok <=>
                  \E a \in N, idLen \in {5, 6}, sepLen \in P, numLen \in P :
                      Decomposes(line, a, idLen, sepLen, numLen)
           /\ \A a \in N, idLen \in {5, 6}, sepLen \in P, numLen \in P :
                  Decomposes(line, a, idLen, sepLen, numLen) =>
                      /\ call.result.eqNum = SubSeq(line, a + 1, a + idLen)
                      /\ call.result.raw =
                             SubSeq(line, a + idLen + sepLen + 1, a + idLen + sepLen + numLen)
           /\ ~call.result.ok => call.result = NoMatch

\* An indented line with a second token after the first numeric run
\* matched: the identifier and the first run alone are captured.
C17_Witness ==
    /\ call.fn = "match"
    /\ call.done
    /\ call.args.line = <<" ", "D", "T", "0", "0", "0", "2", " ", "\t", "1", " ", "2">>
    /\ call.result = [ok |-> TRUE, eqNum |-> <<"D", "T", "0", "0", "0", "2">>,
                      raw |-> <<"1">>]

\* str without its characters c.
Dropped(str, c) == SelectSeq(str, LAMBDA ch : ch # c)

\* C18: in comma format the result is the token without its dots and with
\* its first comma, and no other, turned into a dot; in dot format it is
\* the token without its commas; "1.234,5" in comma format and "1,234.5"
\* in dot format both give "1234.5".
C18_NormalizeNumber ==
    (call.fn = "normalizeNumber" /\ call.done) =>
        LET str == call.args.str
            noDots == Dropped(str, ".")
            commas == {i \in 1..Len(noDots) : noDots[i] = ","}
        IN /\ call.args.format = "comma" =>
                  call.result = [i \in 1..Len(noDots) |->
                                    IF i \in commas /\ \A j \in commas : i <= j
                                    THEN "." ELSE noDots[i]]
           /\ call.args.format = "dot" => call.result = Dropped(str, ",")
           /\ (str = <<"1", ".", "2", "3", "4", ",", "5">> /\ call.args.format = "comma") =>
                  call.result = <<"1", "2", "3", "4", ".", "5">>
           /\ (str = <<"1", ",", "2", "3", "4", ".", "5">> /\ call.args.format = "dot") =>
                  call.result = <<"1", "2", "3", "4", ".", "5">>

\* "1.234,5" was normalized in comma format.
C18_Witness ==
    /\ call.fn = "normalizeNumber"
    /\ call.done
    /\ call.args = [str |-> <<"1", ".", "2", "3", "4", ",", "5">>, format |-> "comma"]
    /\ call.result = <<"1", "2", "3", "4", ".", "5">>

\* C19: calculateStatistics returns the all-zero summary for an empty
\* list; otherwise totalRecords is the length, minPayload and maxPayload
\* are the least and the greatest payload, averagePayload is the tenth
\* nearest to the mean, and excavatorCount and dumpTruckCount count the
\* identifiers starting with EX and with DT; the call changes neither the
\* records passed nor any state of the dashboard.
C19_Statistics ==
    [][(call.fn = "calculateStatistics" /\ ~call.done /\ call'.done) =>
          LET data == call.args.data
              st == call'.result
              I == 1..Len(data)
              V(i) == data[i].payload.v
          IN /\ call'.args = call.args
             /\ UNCHANGED <<toastVars, validation, dataVars, editVars, modalVars, runVars>>
             /\ data = <<>> =>
                    st = [totalRecords |-> 0, averagePayload |-> Num(0),
                          minPayload |-> Num(0), maxPayload |-> Num(0),
                          excavatorCount |-> 0, dumpTruckCount |-> 0]
             /\ data # <<>> =>
                    /\ st.totalRecords = Len(data)
                    /\ \E i \in I : st.minPayload = data[i].payload
                    /\ \A i \in I : st.minPayload.v <= V(i)
                    /\ \E i \in I : st.maxPayload = data[i].payload
                    /\ \A i \in I : st.maxPayload.v >= V(i)
                    /\ st.averagePayload.v % (Scale \div 10) = 0
                    /\ 2 * Abs(st.averagePayload.v * Len(data) - SumV(data))
                           <= (Scale \div 10) * Len(data)
                    /\ st.excavatorCount =
                           Cardinality({i \in I : SubSeq(data[i].eqNum, 1, 2) = <<"E", "X">>})
                    /\ st.dumpTruckCount =
                           Cardinality({i \in I : SubSeq(data[i].eqNum, 1, 2) = <<"D", "T">>})]_vars

\* MaxStats records with payloads 0.05, 10.1 and 1000 were summarized: the
\* mean 336.716... is reported as 336.7.
C19_Witness ==
    /\ call.fn = "calculateStatistics"
    /\ call.done
    /\ Len(call.args.data) = 3
    /\ {call.args.data[i].payload : i \in 1..3} =
           {Num(5), Num(10 * Scale + 10), Num(PayloadMax * Scale)}
    /\ call.result.averagePayload = Num(336 * Scale + 70)
    /\ call.result.minPayload = Num(5)
    /\ call.result.excavatorCount = 1
    /\ call.result.dumpTruckCount = 2

--------------------------------------------------------------------------
\* Reading order of the lines (SpecExtract)

\* The strings of strs joined by single spaces.
RECURSIVE Joined(_, _)
Joined(strs, n) ==
    IF n > Len(strs) THEN <<>>
    ELSE IF n = Len(strs) THEN strs[n]
    ELSE strs[n] \o <<" ">> \o Joined(strs, n + 1)

\* The rows of a page: one row per rounded y, the row with the k-th largest
\* rounded y in place k; in a row, the fragment with the k-th smallest x in
\* place k.
RowsOfPage(items) ==
    LET I == 1..Len(items)
        ys == {roundY(items[i]) : i \in I}
        RowIndices(y) == {i \in I : roundY(items[i]) = y}
        Before(j, i) == items[j].x < items[i].x \/ (items[j].x = items[i].x /\ j < i)
        Place(i) == 1 + Cardinality({j \in RowIndices(roundY(items[i])) : Before(j, i)})
        Row(y) == [k \in 1..Cardinality(RowIndices(y)) |->
                      items[CHOOSE i \in RowIndices(y) : Place(i) = k].str]
        Rank(y) == 1 + Cardinality({z \in ys : z > y})
    IN [k \in 1..Cardinality(ys) |-> Joined(Row(CHOOSE y \in ys : Rank(y) = k), 1)]

\* The rows of the first n pages, page after page.
RECURSIVE RowsOfPages(_, _)
RowsOfPages(file, n) ==
    IF n = 0 THEN <<>>
    ELSE RowsOfPages(file, n - 1) \o RowsOfPage(file.pages[n])

\* C16: while the pages are read the accumulated lines are the rows of the
\* pages read so far, page after page, and the lines handed to the parser
\* are the rows of all pages in ascending page order; each page's rows are
\* in descending order of rounded y, items of the same rounded y form one
\* row, ordered by ascending x and joined by single spaces.
C16_LinesInReadingOrder ==
    \A r \in DOMAIN runs :
        /\ runs[r].pc = "pages" =>
               runs[r].allLines = RowsOfPages(runs[r].file, runs[r].page - 1)
        /\ runs[r].pc = "parsed" =>
               runs[r].allLines = RowsOfPages(runs[r].file, Len(runs[r].file.pages))

\* Both pages of a document with unordered items are read: the first
\* page's rows come first, "a" and "b" share a row in x order, as do "g"
\* and "f".
C16_Witness ==
    \E r \in DOMAIN runs :
        /\ runs[r].pc = "parsed"
        /\ Len(runs[r].file.pages) = 2
        /\ runs[r].allLines = << <<"d">>, <<"a", " ", "b">>, <<"c">>,
                                 <<"e">>, <<"g", " ", "f">> >>

--------------------------------------------------------------------------
\* Properties of the import (SpecImport)

\* Run r fails in this step / the continuation awaiting failed run r runs.
Fails(r) ==
    /\ r \in DOMAIN runs'
    /\ runs'[r].pc = "rejected"
    /\ r \notin DOMAIN runs \/ runs[r].pc # "rejected"
FailureHandled(r) ==
    /\ r \in DOMAIN runs
    /\ runs[r].pc = "rejected"
    /\ r \notin DOMAIN runs'

\* C14: a failed extraction returns no record set and changes nothing: the
\* rejected run carries no result, no step of a run from its start to its
\* settlement writes the collection or the stored aggregate, and the
\* handling of the failure leaves both as they were and shows no preview.
C14_FailureChangesNothing ==
    [][/\ runs' # runs => UNCHANGED dataVars
       /\ \A r \in 1..MaxRuns :
             /\ Fails(r) =>
                   /\ runs'[r].result = NoResult
                   /\ runs'[r].error \in {"NotReady", "EmptyResult", "ProcessingError"}
                   /\ UNCHANGED <<dataVars, preview>>
             /\ FailureHandled(r) =>
                   /\ UNCHANGED <<dataVars, preview>>
                   /\ preview = NoPreview
                   /\ pdfModal' # "preview"]_vars

\* An extraction has failed for want of data while the collection holds
\* records and an aggregate is stored.
C14_Witness ==
    /\ \E r \in DOMAIN runs : runs[r].pc = "rejected" /\ runs[r].error = "EmptyResult"
    /\ Len(fleetData) > 0
    /\ extractedAvgPayload # Null

\* The records of the document that pass both checks, in document order.
IsValidRecord(item) == IdentifierOk(item) /\ PayloadOk(item)
ValidRecordsOf(file, decimalFormat) ==
    SelectSeq(parseLines(DocumentLines(file, 1), decimalFormat).extractedData, IsValidRecord)

\* C15: the preview of a processed document holds exactly the valid records
\* of that document in order; an import into an empty collection stores
\* exactly the previewed records, an import over a non-empty collection
\* leaves it alone until the confirmation and then makes it exactly the
\* previewed records: no invalid record and none of the previous ones.
C15_ImportReplacesWithValidRecords ==
    [][/\ \A r \in 1..MaxRuns :
             (r \in DOMAIN runs /\ runs[r].pc = "resolved" /\ r \notin DOMAIN runs'
                 /\ Len(runs[r].result.extractedData) > 0) =>
                 /\ preview'.shown
                 /\ preview'.validData = ValidRecordsOf(runs[r].file, runs[r].format)
       /\ (pdfModal = "preview" /\ pdfModal' = "hidden" /\ fleetData' # fleetData) =>
             fleetData = <<>> /\ fleetData' = preview.validData
       /\ (pdfModal = "preview" /\ confirmation' # confirmation) =>
             /\ fleetData # <<>>
             /\ fleetData' = fleetData
             /\ confirmation' = [kind |-> "import", validData |-> preview.validData,
                                  extractedAvgPayload |-> preview.extractedAvgPayload]
       /\ (confirmation # NoConfirmation /\ confirmation.kind = "import"
              /\ confirmation' = NoConfirmation /\ fleetData' # fleetData) =>
             /\ fleetData' = confirmation.validData
             /\ \A n \in 1..Len(fleetData') : IsValidRecord(fleetData'[n])]_vars

\* Two documents were processed and their imports requested: the collection
\* is exactly the valid records, in order, of the one that also holds an
\* invalid record, and none of the other's, whose Total line gave the
\* stored aggregate 15.
C15_Witness ==
    /\ confirmation = NoConfirmation
    /\ extractedAvgPayload = Num(15 * Scale)
    /\ nRuns = 2
    /\ \E file \in DashFiles :
          /\ file.type = "application/pdf"
          /\ LET parsed == parseLines(DocumentLines(file, 1), "dot")
             IN /\ parsed.extractedAvgPayload = Null
                /\ Len(parsed.extractedData) > Len(ValidRecordsOf(file, "dot"))
                /\ fleetData # <<>>
                /\ fleetData = ValidRecordsOf(file, "dot")

--------------------------------------------------------------------------
\* Progress of an extraction (SpecSettle)

\* The run's promise is neither resolved nor rejected.
IsPending(r) ==
    /\ r \in DOMAIN runs
    /\ runs[r].pc \notin {"resolved", "rejected"}

\* C13: every started extraction eventually settles, whatever the outcome
\* of the file read, of the document load and of each page fetch: its
\* promise does not stay pending forever.
C13_EveryExtractionSettles ==
    \A r \in 1..MaxRuns : IsPending(r) ~> ~IsPending(r)

--------------------------------------------------------------------------
\* Status messages (SpecToast)

\* C20: a toast shown with duration 0 is never hidden by its auto-hide
\* timer: no timer of such a toast fires while the toast is displayed; it
\* leaves the display by hideLoadingState or its close button only.
C20_PersistentNotTimedOut ==
    [][\A toastId \in DOMAIN toasts :
          (toasts[toastId].persistent /\ toasts[toastId].state = "shown"
              /\ toasts'[toastId].state = "hiding") =>
              toasts'[toastId].timer = toasts[toastId].timer]_vars

--------------------------------------------------------------------------
\* Inline editing (SpecEdit)

\* C21: a record gets a status override only by a save of the status
\* editor opened on that record in which the user chose a status other
\* than the one displayed when the editor opened; no other step stores one.
C21_OverrideOnlyByChoice ==
    [][\A i \in 1..Len(fleetData') :
          (/\ fleetData'[i].statusOverride # NoStatus
           /\ i > Len(fleetData) \/ fleetData'[i].statusOverride # fleetData[i].statusOverride) =>
              /\ i <= Len(fleetData)
              /\ editor.fieldType = "status"
              /\ editor.itemIndex = i
              /\ fleetData'[i].statusOverride #
                     getPayloadStatus(fleetData[i].payload, fleetData[i].statusOverride)]_vars

--------------------------------------------------------------------------
\* The numeric token (SpecPure)

\* s is an optional minus sign, then one or more digits, then at most one
\* "." followed by one or more digits.
IsCanonicalDecimal(s) ==
    LET body == IF s # <<>> /\ s[1] = "-" THEN Tail(s) ELSE s
        dots == {i \in 1..Len(body) : body[i] = "."}
    IN /\ body # <<>>
       /\ \A i \in 1..Len(body) : IsDigit(body[i]) \/ body[i] = "."
       /\ Cardinality(dots) <= 1
       /\ \A i \in dots : 1 < i /\ i < Len(body)

\* C22: for every token the grammar can capture (a non-empty run of digits,
\* dots, commas and minus signs) and either format, the normalizer returns
\* a canonical decimal string, without any comma.
C22_NormalizedIsCanonical ==
    (call.fn = "normalizeNumber" /\ call.done /\ call.args.str # <<>>
        /\ \A i \in 1..Len(call.args.str) : IsNumericChar(call.args.str[i])) =>
        IsCanonicalDecimal(call.result)

--------------------------------------------------------------------------
\* Overlapping extractions (SpecOverlap)

\* The overlap specification: the import modal and the extraction with the
\* file input usable whenever the page takes clicks, an extraction running
\* or not (Cancel hides the modal while the extraction goes on); two
\* one-line documents, processed in the default format.
NextOverlap ==
    \/ Initialize
    \/ \E file \in {PdfFile(<< <<EX1, <<"1", "0">>>> >>, 0),
                    PdfFile(<< <<DT1, <<"2", "0">>>> >>, 0)} : handleFileImport(file)
    \/ cancelPDF
    \/ startPDFProcessing("dot")
    \/ \E r \in 1..MaxRuns : readerLoaded(r)
    \/ \E r \in 1..MaxRuns : documentLoaded(r)
    \/ \E r \in 1..MaxRuns : processingFailed(r)
    \/ \E r \in 1..MaxRuns : pageRead(r)
    \/ \E r \in 1..MaxRuns : settle(r)
    \/ \E r \in 1..MaxRuns : processed(r)

SpecOverlap == Init /\ [][NextOverlap]_vars

\* Run r of extractDataFromPDF has started and its promise is pending.
InProgress(r) ==
    r \in DOMAIN runs /\ runs[r].pc \in {"reading", "loading", "pages", "parsed"}

\* C23: at most one extraction is in progress at any time: selecting another
\* file and starting its processing while an extraction started from the
\* import modal is running produces no second concurrent extraction.
C23_OneExtractionAtATime ==
    Cardinality({r \in 1..MaxRuns : InProgress(r)}) <= 1

\* The second part of C23: a pending file is forgotten only by Cancel or by
\* the end of the processing of that very file.
C23_PendingFileKept ==
    [][(pendingPDFFile # NoFile /\ pendingPDFFile' = NoFile) =>
          \/ pdfModal # "hidden" /\ pdfModal' = "hidden"
          \/ \E r \in DOMAIN runs : /\ r \notin DOMAIN runs'
                                    /\ runs[r].file = pendingPDFFile
                                    /\ \A q \in DOMAIN runs : q <= r]_vars

--------------------------------------------------------------------------
\* The table with filters (SpecTable)

\* Step 1 of updateTable from index i on: an EX record closes the current
\* group and opens a new one; any other record joins the current group, or
\* is left out when no group is open.
RECURSIVE dataInGroupsFrom(_, _, _)
dataInGroupsFrom(data, i, currentGroup) ==
    LET closed == IF Len(currentGroup) > 0 THEN <<currentGroup>> ELSE <<>>
    IN IF i > Len(data) THEN closed
       ELSE IF IsEX(data[i]) THEN closed \o dataInGroupsFrom(data, i + 1, <<data[i]>>)
       ELSE dataInGroupsFrom(data, i + 1,
                IF Len(currentGroup) > 0 THEN Append(currentGroup, data[i])
                ELSE currentGroup)

dataInGroups(data) == dataInGroupsFrom(data, 1, <<>>)

\* itemMatchesRefinementFilters with an empty search box (for which
\* performConfigurableSearch returns true).
itemMatchesRefinementFilters(item, statusFilter) ==
    statusFilter = "" \/ getPayloadStatus(item.payload, item.statusOverride) = statusFilter

\* Variant: with the DT filter alone, every dump truck of a matching group
\* is selected.
potentialItems_wholeGroup(group, excavatorFilter, hdFilter) ==
    LET excavator == group[1]
        dumpTrucks == Tail(group)
        matchingDTs == SelectSeq(dumpTrucks, LAMBDA dt : dt.eqNum = hdFilter)
    IN IF excavatorFilter # <<>>
       THEN IF excavator.eqNum = excavatorFilter
            THEN <<excavator>> \o (IF hdFilter # <<>> THEN matchingDTs ELSE dumpTrucks)
            ELSE <<>>
       ELSE IF hdFilter # <<>>
       THEN IF Len(matchingDTs) > 0 THEN <<excavator>> \o dumpTrucks ELSE <<>>
       ELSE group

\* Stage 1 of updateTable for one group: the items the EX and DT filters
\* select.
potentialItems(group, excavatorFilter, hdFilter) ==
    LET excavator == group[1]
        dumpTrucks == Tail(group)
        matchingDTs == SelectSeq(dumpTrucks, LAMBDA dt : dt.eqNum = hdFilter)
    IN IF excavatorFilter # <<>>
       THEN IF excavator.eqNum = excavatorFilter
            THEN <<excavator>> \o (IF hdFilter # <<>> THEN matchingDTs ELSE dumpTrucks)
            ELSE <<>>
       ELSE IF hdFilter # <<>>
       THEN IF Len(matchingDTs) > 0 THEN <<excavator>> \o matchingDTs ELSE <<>>
       ELSE group

\* What updateTable displays of one group: nothing when the supervisor
\* filter names another supervisor or stage 1 selects nothing; otherwise
\* the excavator and the selected dump trucks that pass the refinement, if
\* the excavator or one of them passes it.
filteredGroup(group, filters) ==
    LET potential == potentialItems(group, filters.excavatorFilter, filters.hdFilter)
        refinedDumpTrucks ==
            SelectSeq(Tail(potential),
                      LAMBDA dt : itemMatchesRefinementFilters(dt, filters.statusFilter))
    IN IF filters.supervisorFilter # <<>> /\ group[1].supervisor # filters.supervisorFilter
       THEN <<>>
       ELSE IF Len(potential) = 0 THEN <<>>
       ELSE IF itemMatchesRefinementFilters(potential[1], filters.statusFilter)
               \/ Len(refinedDumpTrucks) > 0
       THEN <<potential[1]>> \o refinedDumpTrucks
       ELSE <<>>

RECURSIVE filteredData(_, _, _)
filteredData(groups, n, filters) ==
    IF n > Len(groups) THEN <<>>
    ELSE filteredGroup(groups[n], filters) \o filteredData(groups, n + 1, filters)

\* updateTable: the records displayed, from top to bottom.
updateTable(data, filters) == filteredData(dataInGroups(data), 1, filters)

\* Calls of updateTable: collections of at most MaxTable records (two
\* excavators and two dump trucks, of two supervisors and two statuses, in
\* any order and number), each filter either empty or one of the options
\* updateFilters offers for the collection, the search box empty.
MaxTable == 4
TableItems ==
    { [eqNum |-> EX1, payload |-> Num(OptimalMin * Scale),
       supervisor |-> <<"A">>, statusOverride |-> NoStatus],
      [eqNum |-> EX2, payload |-> Num(Scale),
       supervisor |-> <<"B">>, statusOverride |-> NoStatus],
      [eqNum |-> DT1, payload |-> Num(OptimalMin * Scale),
       supervisor |-> <<"A">>, statusOverride |-> NoStatus],
      [eqNum |-> DT2, payload |-> Num(Scale),
       supervisor |-> <<>>, statusOverride |-> NoStatus] }

\* The options updateFilters offers in the EX or DT select for data.
EquipmentOptions(data, kind) ==
    {<<>>} \cup {data[i].eqNum : i \in {j \in 1..Len(data) : startsWith(data[j].eqNum, kind)}}

updateTableCall ==
    /\ call.fn = "updateTable"
    /\ ~call.done
    /\ call' = [call EXCEPT !.done = TRUE,
                            !.result = updateTable(call.args.data, call.args.filters)]
    /\ UNCHANGED <<toastVars, validation, dataVars, editVars, modalVars, runVars>>

InitTable ==
    /\ InitSession
    /\ isInitialized = FALSE
    /\ \E n \in 0..MaxTable :
         \E data \in [1..n -> TableItems] :
           \E ex \in EquipmentOptions(data, <<"E", "X">>),
              hd \in EquipmentOptions(data, <<"D", "T">>),
              sup \in {<<>>} \cup ({data[i].supervisor : i \in 1..Len(data)} \ {<<>>}),
              st \in {"", "under"} :
                call = [fn |-> "updateTable", done |-> FALSE,
                        args |-> [data |-> data,
                                  filters |-> [excavatorFilter |-> ex, hdFilter |-> hd,
                                               supervisorFilter |-> sup,
                                               statusFilter |-> st]],
                        result |-> <<>>]

SpecTable == InitTable /\ [][updateTableCall]_vars

\* The index of the nearest EX record at or before index i, 0 without one.
ParentIndex(data, i) ==
    IF \E j \in 1..i : IsEX(data[j])
    THEN CHOOSE j \in 1..i : IsEX(data[j]) /\ \A m \in (j + 1)..i : ~IsEX(data[m])
    ELSE 0

\* The records of data at the indices in S, in collection order.
RowsAt(data, S) ==
    LET idx == SelectSeq([i \in 1..Len(data) |-> i], LAMBDA i : i \in S)
    IN [k \in 1..Len(idx) |-> data[idx[k]]]

\* updateTable was called with only the filters of `kinds` set.
TableShownWith(kinds) ==
    /\ call.fn = "updateTable"
    /\ call.done
    /\ (call.args.filters.excavatorFilter # <<>>) = ("excavator" \in kinds)
    /\ (call.args.filters.hdFilter # <<>>) = ("hd" \in kinds)
    /\ call.args.filters.supervisorFilter = <<>>
    /\ call.args.filters.statusFilter = ""

\* C24: without search, status and supervisor filter, an excavator filter
\* alone displays exactly the excavators of that identifier, each followed
\* by all records of its group; a dump-truck filter alone displays exactly
\* the dump trucks of that identifier that belong to a group, each group's
\* ones preceded by their parent excavator; a group without a matching
\* item displays nothing.
C24_EquipmentFilters ==
    LET data == call.args.data
        filters == call.args.filters
        parent(i) == ParentIndex(data, i)
    IN /\ TableShownWith({"excavator"}) =>
              call.result =
                  RowsAt(data, {i \in 1..Len(data) :
                                   /\ parent(i) # 0
                                   /\ data[parent(i)].eqNum = filters.excavatorFilter})
       /\ TableShownWith({"hd"}) =>
              call.result =
                  RowsAt(data, {i \in 1..Len(data) :
                                   \/ /\ ~IsEX(data[i])
                                      /\ parent(i) # 0
                                      /\ data[i].eqNum = filters.hdFilter
                                   \/ /\ IsEX(data[i])
                                      /\ \E m \in (i + 1)..Len(data) :
                                             /\ parent(m) = i
                                             /\ data[m].eqNum = filters.hdFilter})

\* The collection EX0001, DT0001, EX0002, DT0002 was displayed with the
\* dump-truck filter DT0002 alone: EX0002 and DT0002 are shown.
C24_Witness ==
    /\ TableShownWith({"hd"})
    /\ Len(call.args.data) = 4
    /\ [i \in 1..4 |-> call.args.data[i].eqNum] = <<EX1, DT1, EX2, DT2>>
    /\ call.args.filters.hdFilter = DT2
    /\ [i \in 1..Len(call.result) |-> call.result[i].eqNum] = <<EX2, DT2>>

\* C27: with every filter empty and no search term the table displays every
\* record of the collection, in collection order, whatever it contains.
C27_NoFilterShowsAll ==
    TableShownWith({}) => call.result = call.args.data

--------------------------------------------------------------------------
\* The aggregate after an import (SpecImport)

\* C25: a step that performs an import (the Import button over an empty
\* collection, or the accepted confirmation of an import) leaves as stored
\* aggregate the aggregate of the document imported, absent when that
\* document had no Total line.
C25_AggregateOfImportedDocument ==
    [][/\ (importPDFData /\ fleetData = <<>>) =>
             extractedAvgPayload' = preview.extractedAvgPayload
       /\ (confirmAccept /\ confirmation.kind = "import") =>
             extractedAvgPayload' = confirmation.extractedAvgPayload]_vars

--------------------------------------------------------------------------
\* Supervisors of a group (Spec)

\* C26: every DT record that has an EX record before it carries the
\* supervisor of its nearest preceding EX record.
C26_GroupSupervisor ==
    \A i \in 1..Len(fleetData) :
        (IsDT(fleetData[i]) /\ ParentIndex(fleetData, i) # 0) =>
            fleetData[i].supervisor = fleetData[ParentIndex(fleetData, i)].supervisor

--------------------------------------------------------------------------
\* Rejected and cancelled inline edits (SpecEdit)

\* The text of the inline editor ed of data is one saveEdit is to reject or
\* to ignore: empty, the value displayed, an identifier another record
\* carries, or a payload that is no number or is negative.
IsRejectedText(data, ed, text) ==
    \/ trim(text) = <<>>
    \/ trim(text) = originalValueOf(data[ed.itemIndex], ed.fieldType)
    \/ /\ ed.fieldType = "eqNum"
       /\ \E index \in 1..Len(data) : index # ed.itemIndex /\ data[index].eqNum = trim(text)
    \/ /\ ed.fieldType = "payload"
       /\ isNaN(parseFloat(trim(text))) \/ NumLt(parseFloat(trim(text)), Num(0))

\* C28: a save of a rejected, empty or unchanged value, a save of the status
\* editor with the selection unchanged, and Escape modify no field of any
\* record.
C28_RejectedEditChangesNothing ==
    [][/\ \A text \in EqNumTexts \cup PayloadTexts :
             (saveEdit(text) /\ IsRejectedText(fleetData, editor, text)) =>
                 fleetData' = fleetData
       /\ \A key \in StatusKeys :
             (/\ saveStatus(key)
              /\ key = getPayloadStatus(fleetData[editor.itemIndex].payload,
                                        fleetData[editor.itemIndex].statusOverride)) =>
                 fleetData' = fleetData
       /\ cancelEdit => fleetData' = fleetData]_vars

--------------------------------------------------------------------------
\* The isUpdating flag (SpecUpdating)

\* The editing specification with the timers of setTimeout(..., 0): a
\* pending timer callback is run by the event loop (weak fairness of
\* resetUpdating).
SpecUpdating == Init /\ [][NextEdit]_vars /\ WF_vars(resetUpdating)

--------------------------------------------------------------------------
\* The loading state of an extraction (SpecLoading)

\* The toast container, the loading toast's id and the toast counter as
\* one value, for the handlers that call several loading methods in a row.
ToastState ==
    [toasts |-> toasts, currentLoadingToastId |-> currentLoadingToastId, nToasts |-> nToasts]

\* showLoadingState applied to t.
loadingShown(t) ==
    [toasts |-> Append(t.toasts, toastOf("processing", Num(0))),
     currentLoadingToastId |-> t.nToasts + 1,
     nToasts |-> t.nToasts + 1]

\* updateLoadingState applied to t (as updateStatus(message, 'processing')
\* calls it): the loading toast is kept while it is in the container,
\* otherwise a new loading state is shown.
loadingUpdated(t) ==
    IF /\ t.currentLoadingToastId # 0
       /\ t.currentLoadingToastId \in DOMAIN t.toasts
       /\ t.toasts[t.currentLoadingToastId].state # "removed"
    THEN t
    ELSE loadingShown(t)

\* Variant: the loading toast is hidden but still named.
loadingHidden_keepId(t) ==
    IF t.currentLoadingToastId = 0 THEN t
    ELSE [t EXCEPT !.toasts =
             [id \in DOMAIN t.toasts |->
                 IF id = t.currentLoadingToastId /\ t.toasts[id].state # "removed"
                 THEN [t.toasts[id] EXCEPT !.state = "hiding"]
                 ELSE t.toasts[id]]]

\* hideLoadingState applied to t (as finishLoading and updateStatus with a
\* type other than 'processing' call it).
loadingHidden(t) ==
    IF t.currentLoadingToastId = 0 THEN t
    ELSE [t EXCEPT !.toasts =
             [id \in DOMAIN t.toasts |->
                 IF id = t.currentLoadingToastId /\ t.toasts[id].state # "removed"
                 THEN [t.toasts[id] EXCEPT !.state = "hiding"]
                 ELSE t.toasts[id]],
                   !.currentLoadingToastId = 0]

\* Toasts created in a behaviour of SpecLoading.
MaxLoadingToasts == 4

\* The toast variables become t.
ToastsBecome(t) ==
    /\ t.nToasts <= MaxLoadingToasts
    /\ toasts' = t.toasts
    /\ currentLoadingToastId' = t.currentLoadingToastId
    /\ nToasts' = t.nToasts

\* The loading calls of onload from the end of the page loop to the
\* settling of the promise: with records the 'info' message hides the
\* loading state and the 'processing' message shows one again; with data
\* found another 'processing' message, finishLoading for a truthy aggregate
\* and the final finishLoading; without data finishLoading.
loadingAtEnd(t, parsed) ==
    LET afterRecords == IF Len(parsed.extractedData) > 0
                        THEN loadingUpdated(loadingHidden(t))
                        ELSE t
    IN IF parsed.dataFound
       THEN LET afterAverage == IF Truthy(parsed.extractedAvgPayload)
                                THEN loadingHidden(loadingUpdated(afterRecords))
                                ELSE loadingUpdated(afterRecords)
            IN loadingHidden(afterAverage)
       ELSE loadingHidden(afterRecords)

\* startPDFProcessing with the loading calls of extractDataFromPDF up to its
\* first suspension: startLoading, and finishLoading before each throw.
startPDFProcessingLoading(decimalFormat) ==
    /\ ~MicrotaskPending
    /\ pdfModal = "ready"
    /\ editor = NoEditor
    /\ nRuns < MaxRuns
    /\ pendingPDFFile # NoFile
    /\ pdfModal' = "processing"
    /\ nRuns' = nRuns + 1
    /\ LET run == extractDataFromPDF(pendingPDFFile, decimalFormat)
       IN /\ runs' = ((nRuns + 1) :> run) @@ runs
          /\ ToastsBecome(IF run.pc = "rejected"
                          THEN loadingHidden(loadingShown(ToastState))
                          ELSE loadingShown(ToastState))
    /\ UNCHANGED <<call, validation, dataVars, editVars, pendingPDFFile, preview, confirmation,
                   isInitialized>>

\* extractDataFromPDF called without a file or with a file of another type:
\* startLoading, finishLoading, and the promise is rejected.
extractInvalidLoading ==
    /\ ~MicrotaskPending
    /\ Idle
    /\ ToastsBecome(loadingHidden(loadingShown(ToastState)))
    /\ UNCHANGED <<call, validation, dataVars, editVars, modalVars, runVars>>

\* fileReader.onload up to `await getDocument(...)`, with its 'processing'
\* message.
readerLoadedLoading(r) ==
    /\ ~MicrotaskPending
    /\ r \in DOMAIN runs
    /\ runs[r].pc = "reading"
    /\ runs' = [runs EXCEPT ![r].pc = "loading"]
    /\ ToastsBecome(loadingUpdated(ToastState))
    /\ UNCHANGED <<call, validation, dataVars, editVars, modalVars, isInitialized, nRuns>>

\* getDocument resolved: the 'processing' messages before the page loop and
\* of its first round.
documentLoadedLoading(r) ==
    /\ ~MicrotaskPending
    /\ r \in DOMAIN runs
    /\ runs[r].pc = "loading"
    /\ runs' = [runs EXCEPT ![r].pc = "pages", ![r].page = 1]
    /\ ToastsBecome(loadingUpdated(ToastState))
    /\ UNCHANGED <<call, validation, dataVars, editVars, modalVars, isInitialized, nRuns>>

\* An await inside onload rejected: the catch block calls finishLoading and
\* rejects.
processingFailedLoading(r) ==
    /\ ~MicrotaskPending
    /\ r \in DOMAIN runs
    /\ runs[r].pc \in {"loading", "pages"}
    /\ runs' = [runs EXCEPT ![r] = Rejected(@, "ProcessingError")]
    /\ ToastsBecome(loadingHidden(ToastState))
    /\ UNCHANGED <<call, validation, dataVars, editVars, modalVars, isInitialized, nRuns>>

\* getTextContent resolved for the current page: the 'processing' message
\* of the next round, or the one after the loop.
pageReadLoading(r) ==
    /\ ~MicrotaskPending
    /\ r \in DOMAIN runs
    /\ runs[r].pc = "pages"
    /\ LET run == runs[r]
           allLines == run.allLines \o pageLines(run.file.pages[run.page])
       IN runs' = [runs EXCEPT ![r] =
                      IF run.page < Len(run.file.pages)
                      THEN [run EXCEPT !.allLines = allLines, !.page = run.page + 1]
                      ELSE [run EXCEPT !.allLines = allLines, !.pc = "parsed"]]
    /\ ToastsBecome(loadingUpdated(ToastState))
    /\ UNCHANGED <<call, validation, dataVars, editVars, modalVars, isInitialized, nRuns>>

\* The rest of onload: the promise settles, after the loading calls of
\* loadingAtEnd.
settleLoading(r) ==
    /\ ~MicrotaskPending
    /\ r \in DOMAIN runs
    /\ runs[r].pc = "parsed"
    /\ runs' = [runs EXCEPT ![r] = finishExtraction(@)]
    /\ ToastsBecome(loadingAtEnd(ToastState, parseLines(runs[r].allLines, runs[r].format)))
    /\ UNCHANGED <<call, validation, dataVars, editVars, modalVars, isInitialized, nRuns>>

\* The continuation of processPDFWithTextExtraction: for a result with
\* records validateExtractedData shows its 'processing' message and then
\* reports its result, which hides the loading state.
processedLoading(r) ==
    /\ r \in DOMAIN runs
    /\ runs[r].pc \in {"resolved", "rejected"}
    /\ IF previewOf(runs[r]).shown
       THEN /\ pdfModal' = "preview"
            /\ preview' = previewOf(runs[r])
            /\ ToastsBecome(loadingHidden(loadingUpdated(ToastState)))
       ELSE UNCHANGED <<pdfModal, preview, toastVars>>
    /\ runs' = Without(runs, r)
    /\ pendingPDFFile' = NoFile
    /\ UNCHANGED <<call, validation, dataVars, editVars, confirmation, isInitialized, nRuns>>

\* The loading specification: the import modal and the extraction with the
\* loading state each step shows, updates or hides, and the timers of the
\* toasts; documents with records and an aggregate, with an invalid
\* record and the aggregate 0, with a Total line only and without data,
\* processed in the default format.  The result messages (shown by a timer
\* 100 or 200 ms after the loading state is hidden) are toasts no loading
\* method reads; they are left out.
NextLoading ==
    \/ Initialize
    \/ \E rows \in { << <<EX1, <<"1", "0">>>>, <<DT1, <<"3", "0">>>>, <<Total, <<"1", "5">>>> >>,
                      << <<EX1, <<"1", "0">>>>, <<DT2, <<"-", "1">>>>, <<Total, <<"0">>>> >>,
                      << <<Total, <<"7">>>> >>,
                      << <<<<"R", "e", "p", "o", "r", "t">>>> >> } :
           Idle /\ handleFileImport(PdfFile(rows, 0))
    \/ cancelPDF
    \/ startPDFProcessingLoading("dot")
    \/ extractInvalidLoading
    \/ \E r \in 1..MaxRuns : readerLoadedLoading(r)
    \/ \E r \in 1..MaxRuns : documentLoadedLoading(r)
    \/ \E r \in 1..MaxRuns : processingFailedLoading(r)
    \/ \E r \in 1..MaxRuns : pageReadLoading(r)
    \/ \E r \in 1..MaxRuns : settleLoading(r)
    \/ \E r \in 1..MaxRuns : processedLoading(r)
    \/ \E toastId \in 1..MaxLoadingToasts : autoHide(toastId)
    \/ \E toastId \in 1..MaxLoadingToasts : removeToast(toastId)

SpecLoading == Init /\ [][NextLoading]_vars

\* C30: once every started extraction has settled (with success or with
\* InvalidInput, NotReady, EmptyResult or ProcessingError) and, for a
\* result with records, validation has reported, no loading state is
\* active: currentLoadingToastId is null.
C30_LoadingClosed ==
    (\A r \in DOMAIN runs : runs[r].pc \in {"resolved", "rejected"}) =>
        currentLoadingToastId = 0

\* An extraction with records has resolved and was validated and
\* previewed: three loading states were shown for it and none is active.
C30_Witness ==
    /\ Idle
    /\ nRuns = 1
    /\ preview.shown
    /\ nToasts >= 3
    /\ currentLoadingToastId = 0

====
